---- MODULE Spec2Model ----
(***************************************************************************)
(* BetterForward-enhance: the verification and appeal state machine and    *)
(* the inbound relay router.                                               *)
(*                                                                         *)
(* db     the sqlite store (one field per table, one entry per user id)    *)
(* cache  the diskcache entries the handlers read and write                *)
(* tg     the chat platform: the forum threads that exist, the next id     *)
(* units  inbound messages whose handler is suspended in a platform call   *)
(*                                                                         *)
(* A handler is an operator from the store and cache it starts from (and   *)
(* its inputs) to the store and cache it leaves and what it answered; an   *)
(* action applies it to the current state.  Notices the bot sends to the   *)
(* user's own chat carry no state and are taken to be delivered; the       *)
(* platform calls whose failure the code handles (thread creation, the     *)
(* forward into a thread) can fail.  verification_attempts and             *)
(* appeal_requests are UNIQUE on user_id and blocked_users has user_id as  *)
(* its key, so each is a function of the user id.                          *)
(*                                                                         *)
(* Spec runs each handler as one unit of work, for one client: a handler   *)
(* reads and writes only the rows and cache keys of the user it is called  *)
(* for.  SpecConc interleaves inbound units at the platform calls of the   *)
(* router, for all users.  SpecRelay follows the correlation rows of the    *)
(* messages table and the message ids of the platform, with captcha         *)
(* disabled: the rows are written at the end of a successful forward and    *)
(* read only by _get_reply_id, whose result is the reply_to of the message  *)
(* sent, so the other specifications leave the table as it is.              *)
(* SpecOrder runs the three branches of _check_captcha that write the       *)
(* store one effect at a time (write, commit, cache update, send), with     *)
(* units holding the running branch and its transaction, and takes the      *)
(* callback data as the text it is.  SpecMigrate is the migration script:    *)
(* there db is the schema it changes and the rows of settings.              *)
(* SpecAnswers interleaves the units of work that handle the wrong answers  *)
(* of one user at the statements of record_attempt; there units holds what  *)
(* each unit has read and what record_attempt returned to it.               *)
(***************************************************************************)
EXTENDS Integers, Sequences, FiniteSets, TLC

VARIABLES db, cache, tg, units

vars == <<db, cache, tg, units>>

(* ------------------------------ bounds -------------------------------- *)

MaxOperand == 2
MaxThreads == 2
MaxUnits == 2
MaxMessages == 3
MaxSettingsRows == 4
MaxAnswers == 3

(* ------------------------- program constants -------------------------- *)

MathOperandMax == 50
MaxAttempts == 3

Users == {1, 2}
Clients == {1}
Admins == {101, 102}
ThreadIds == 1..MaxThreads

\* The chats of the platform: the workspace group and each user's private
\* chat.  Message ids are counted per chat, from 1.
GroupId == 0
ChatIds == {GroupId} \cup Users

(* ------------------------------ values -------------------------------- *)

\* A Python value held in the cache or carried as message.text.
None == [t |-> "none", i |-> 0, s |-> <<>>]
PyInt(n) == [t |-> "int", i |-> n, s |-> <<>>]
PyStr(cs) == [t |-> "str", i |-> 0, s |-> cs]

DigitChars == <<"0", "1", "2", "3", "4", "5", "6", "7", "8", "9">>

RECURSIVE IntToStr(_)
IntToStr(n) ==
    IF n < 0 THEN <<"-">> \o IntToStr(0 - n)
    ELSE IF n < 10 THEN <<DigitChars[n + 1]>>
    ELSE IntToStr(n \div 10) \o <<DigitChars[(n % 10) + 1]>>

\* Python's str(): the decimal digits of an int, a str itself, "None" for None.
Str(v) ==
    CASE v.t = "int" -> IntToStr(v.i)
      [] v.t = "str" -> v.s
      [] OTHER -> <<"N", "o", "n", "e">>

\* The 4-digit codes of the image challenge that the model draws from.
ImageCodes == {<<"0", "0", "0", "3">>, <<"4", "7", "1", "1">>}

\* message.text of the inbound messages the model draws from: decimal
\* strings, a zero-padded one, an image code, and a message without text.
Texts ==
    {PyStr(IntToStr(k)) : k \in 2..(2 * MaxOperand)}
        \cup {PyStr(<<"0">> \o IntToStr(2)), PyStr(<<"3">>)}
        \cup {PyStr(code) : code \in ImageCodes}
        \cup {None}

CaptchaTypes == {"math", "button", "image"}

(* ------------------------------- rows --------------------------------- *)

NoAttempts == [row |-> FALSE, attempt_count |-> 0, blocked_by_attempts |-> FALSE]
NoAppeal == [row |-> FALSE, status |-> "none", admin_id |-> 0, handled_at |-> FALSE]

\* What generate_captcha draws at random: the operands of a math challenge
\* and the code of an image challenge (each kind reads its own fields only).
NoDraw == [a |-> 1, b |-> 1, code |-> <<"0", "0", "0", "3">>]
Draws ==
    {[NoDraw EXCEPT !.a = a, !.b = b] : a \in 1..MaxOperand, b \in 1..MaxOperand}
        \cup {[NoDraw EXCEPT !.code = code] : code \in ImageCodes}

(* ------------------------- captcha manager ---------------------------- *)
\* The operators below take and return S = [db |-> store, cache |-> cache].

\* generate_captcha with the product of the operands as the answer.
MathAnswerProduct(a, b) == a * b

MathAnswer(a, b) == a + b

\* generate_captcha: math and image store the expected answer for 300 s;
\* button sends the button and stores nothing.
GenerateCaptcha(S, u, ctype, g) ==
    CASE ctype = "math" ->
            [S EXCEPT !.cache.captcha[u] = PyInt(MathAnswer(g.a, g.b))]
      [] ctype = "image" -> [S EXCEPT !.cache.captcha[u] = PyStr(g.code)]
      [] OTHER -> S

\* verify_captcha without the test for a missing cache entry.
VerifyCaptchaNoNoneTest(S, u, answer) == Str(answer) = Str(S.cache.captcha[u])

\* verify_captcha comparing the answer with the stored value itself.
VerifyCaptchaNoStr(S, u, answer) ==
    IF S.cache.captcha[u] = None THEN FALSE
    ELSE answer = S.cache.captcha[u]

VerifyCaptcha(S, u, answer) ==
    IF S.cache.captcha[u] = None THEN FALSE
    ELSE Str(answer) = Str(S.cache.captcha[u])

\* is_user_verified: the cached flag if there is one, else the store's row,
\* which is then cached for 1800 s.
IsUserVerified(S, u) ==
    IF S.cache.verified[u] = "none"
    THEN [S |-> [S EXCEPT !.cache.verified[u] =
                     IF u \in S.db.verified_users THEN "true" ELSE "false"],
          verified |-> u \in S.db.verified_users]
    ELSE [S |-> S, verified |-> S.cache.verified[u] = "true"]

\* set_user_verified without the INSERT into verified_users.
SetUserVerifiedCacheOnly(S, u) == [S EXCEPT !.cache.verified[u] = "true"]

SetUserVerified(S, u) ==
    [S EXCEPT !.db.verified_users = @ \cup {u},
              !.cache.verified[u] = "true"]

\* record_attempt counting every failure twice.
RecordAttemptByTwo(S, u) ==
    LET new_count == IF S.db.verification_attempts[u].row
                     THEN S.db.verification_attempts[u].attempt_count + 2
                     ELSE 2
    IN [S |-> [S EXCEPT !.db.verification_attempts[u] =
                   [row |-> TRUE, attempt_count |-> new_count,
                    blocked_by_attempts |-> @.blocked_by_attempts]],
        new_count |-> new_count]

\* record_attempt: the store after the attempt, and the count it returns.
RecordAttempt(S, u) ==
    IF S.db.verification_attempts[u].row
    THEN LET new_count == S.db.verification_attempts[u].attempt_count + 1
         IN [S |-> [S EXCEPT !.db.verification_attempts[u].attempt_count = new_count],
             new_count |-> new_count]
    ELSE [S |-> [S EXCEPT !.db.verification_attempts[u] =
                    [row |-> TRUE, attempt_count |-> 1,
                     blocked_by_attempts |-> FALSE]],
          new_count |-> 1]

GetAttemptCount(S, u) ==
    IF S.db.verification_attempts[u].row
    THEN S.db.verification_attempts[u].attempt_count
    ELSE 0

ResetAttempts(S, u) == [S EXCEPT !.db.verification_attempts[u] = NoAttempts]

\* block_user_by_attempts without the DELETE from verified_users.
BlockUserKeepVerified(S, u) ==
    [S EXCEPT !.db.verification_attempts[u].blocked_by_attempts =
                  IF S.db.verification_attempts[u].row THEN TRUE ELSE @,
              !.db.blocked_users[u] = "auto_attempts"]

\* block_user_by_attempts without the INSERT into blocked_users.
BlockUserFlagOnly(S, u) ==
    [S EXCEPT !.db.verification_attempts[u].blocked_by_attempts =
                  IF S.db.verification_attempts[u].row THEN TRUE ELSE @,
              !.db.verified_users = @ \ {u},
              !.cache.verified[u] = "none"]

BlockUserByAttempts(S, u) ==
    [S EXCEPT !.db.verification_attempts[u].blocked_by_attempts =
                  IF S.db.verification_attempts[u].row THEN TRUE ELSE @,
              !.db.blocked_users[u] = "auto_attempts",
              !.db.verified_users = @ \ {u},
              !.cache.verified[u] = "none"]

(* -------------------------- message handler --------------------------- *)

\* The answer to a user whose appeal row exists, by its status.
AlreadyAppealed(status) ==
    CASE status = "pending" -> "appeal_already_pending"
      [] status = "approved" -> "appeal_already_approved"
      [] status = "rejected" -> "appeal_already_rejected"
      [] OTHER -> "appeal_status_unknown"

\* _submit_appeal without the automatic approval of auto mode.
SubmitAppealPendingOnly(S, u) ==
    IF S.db.appeal_requests[u].row
    THEN [S |-> S, ev |-> AlreadyAppealed(S.db.appeal_requests[u].status)]
    ELSE [S |-> [S EXCEPT !.db.appeal_requests[u] =
                     [row |-> TRUE, status |-> "pending",
                      admin_id |-> 0, handled_at |-> FALSE]],
          ev |-> "appeal_submitted"]

\* _submit_appeal: the appeal row, and its automatic approval in auto mode.
SubmitAppeal(S, u) ==
    IF S.db.appeal_requests[u].row
    THEN [S |-> S, ev |-> AlreadyAppealed(S.db.appeal_requests[u].status)]
    ELSE LET S1 == [S EXCEPT !.db.appeal_requests[u] =
                        [row |-> TRUE, status |-> "pending",
                         admin_id |-> 0, handled_at |-> FALSE]]
         IN IF S.cache.setting_appeal_mode = "auto"
            THEN [S |-> [S1 EXCEPT !.db.blocked_users[u] = "none",
                                   !.db.appeal_requests[u].status = "approved",
                                   !.db.appeal_requests[u].handled_at = TRUE],
                  ev |-> "appeal_auto_approved"]
            ELSE [S |-> S1, ev |-> "appeal_submitted"]

\* The blocked branch of _check_captcha without the two cache deletes that
\* follow a wrong answer.
CheckCaptchaBlockedKeepFlag(S, u, text) ==
    IF S.cache.appeal_verification[u]
    THEN LET S1 == [S EXCEPT !.cache.appeal_verification[u] = FALSE,
                             !.cache.captcha[u] = None]
         IN IF VerifyCaptcha(S, u, text)
            THEN LET r == SubmitAppeal(S1, u)
                 IN [S |-> r.S, ret |-> FALSE, ev |-> r.ev, count |-> 0]
            ELSE [S |-> S, ret |-> FALSE, ev |-> "appeal_wrong", count |-> 0]
    ELSE [S |-> S, ret |-> FALSE, ev |-> "blocked_notice", count |-> 0]

\* The blocked branch of _check_captcha with record_attempt called for a
\* wrong answer to the appeal challenge.
CheckCaptchaBlockedCounting(S, u, text) ==
    IF S.cache.appeal_verification[u]
    THEN LET S1 == [S EXCEPT !.cache.appeal_verification[u] = FALSE,
                             !.cache.captcha[u] = None]
         IN IF VerifyCaptcha(S, u, text)
            THEN LET r == SubmitAppeal(S1, u)
                 IN [S |-> r.S, ret |-> FALSE, ev |-> r.ev, count |-> 0]
            ELSE [S |-> RecordAttempt(S1, u).S, ret |-> FALSE,
                  ev |-> "appeal_wrong", count |-> 0]
    ELSE [S |-> S, ret |-> FALSE, ev |-> "blocked_notice", count |-> 0]

\* The blocked branch of _check_captcha (lines 234-273).
CheckCaptchaBlocked(S, u, text) ==
    IF S.cache.appeal_verification[u]
    THEN LET S1 == [S EXCEPT !.cache.appeal_verification[u] = FALSE,
                             !.cache.captcha[u] = None]
         IN IF VerifyCaptcha(S, u, text)
            THEN LET r == SubmitAppeal(S1, u)
                 IN [S |-> r.S, ret |-> FALSE, ev |-> r.ev, count |-> 0]
            ELSE [S |-> S1, ret |-> FALSE, ev |-> "appeal_wrong", count |-> 0]
    ELSE [S |-> S, ret |-> FALSE, ev |-> "blocked_notice", count |-> 0]

\* The answer branch of _check_captcha (lines 276-331).
CheckCaptchaAnswer(S, u, text, g) ==
    IF ~VerifyCaptcha(S, u, text)
    THEN LET r == RecordAttempt(S, u)
             S1 == r.S
             attempt_count == r.new_count
         IN IF attempt_count >= MaxAttempts
            THEN [S |-> [BlockUserByAttempts(S1, u) EXCEPT !.cache.captcha[u] = None],
                  ret |-> FALSE, ev |-> "auto_block", count |-> attempt_count]
            ELSE [S |-> GenerateCaptcha(S1, u, S1.cache.setting_captcha, g),
                  ret |-> FALSE, ev |-> "wrong_answer", count |-> attempt_count]
    ELSE [S |-> [ResetAttempts(SetUserVerified(S, u), u)
                    EXCEPT !.cache.captcha[u] = None],
          ret |-> FALSE, ev |-> "correct_answer", count |-> 0]

\* The unverified branch of _check_captcha without the rate limit.
CheckCaptchaUnverifiedNoLimit(S, u, g) ==
    LET v == IsUserVerified(S, u)
    IN IF ~v.verified
       THEN IF v.S.cache.setting_captcha \in CaptchaTypes
            THEN [S |-> GenerateCaptcha(v.S, u, v.S.cache.setting_captcha, g),
                  ret |-> FALSE, ev |-> "challenge_issued", count |-> 0]
            ELSE [S |-> v.S, ret |-> FALSE, ev |-> "invalid_setting", count |-> 0]
       ELSE [S |-> v.S, ret |-> TRUE, ev |-> "verified", count |-> 0]

\* The unverified branch of _check_captcha (lines 334-369).
CheckCaptchaUnverified(S, u, g) ==
    LET v == IsUserVerified(S, u)
    IN IF ~v.verified
       THEN IF v.S.cache.captcha_rate_limit[u]
            THEN [S |-> v.S, ret |-> FALSE, ev |-> "rate_limited", count |-> 0]
            ELSE LET S1 == [v.S EXCEPT !.cache.captcha_rate_limit[u] = TRUE]
                 IN IF S1.cache.setting_captcha \in CaptchaTypes
                    THEN [S |-> GenerateCaptcha(S1, u, S1.cache.setting_captcha, g),
                          ret |-> FALSE, ev |-> "challenge_issued", count |-> 0]
                    ELSE [S |-> S1, ret |-> FALSE, ev |-> "invalid_setting",
                          count |-> 0]
       ELSE [S |-> v.S, ret |-> TRUE, ev |-> "verified", count |-> 0]

\* _check_captcha(message): TRUE lets the message on to the router.
CheckCaptcha(S, u, text, g) ==
    IF S.cache.setting_captcha = "disable"
    THEN [S |-> S, ret |-> TRUE, ev |-> "captcha_disabled", count |-> 0]
    ELSE IF S.db.blocked_users[u] # "none"
    THEN CheckCaptchaBlocked(S, u, text)
    ELSE IF S.cache.captcha[u] # None
    THEN CheckCaptchaAnswer(S, u, text, g)
    ELSE CheckCaptchaUnverified(S, u, g)


(* ------------------------------ router -------------------------------- *)

TopicsOf(S, u) == {row \in S.db.topics : row.user_id = u}

Min(ns) == CHOOSE n \in ns : \A m \in ns : n <= m

\* The read half of _get_or_create_thread (lines 490-493, 521-523): the
\* cached thread id, else the store's first row, which is then cached;
\* thread_id 0 when neither has one.
LookupThread(S, u) ==
    IF S.cache.chat_threadid[u] # 0
    THEN [S |-> S, thread_id |-> S.cache.chat_threadid[u]]
    ELSE IF TopicsOf(S, u) # {}
    THEN LET t == Min({row.thread_id : row \in TopicsOf(S, u)})
         IN [S |-> [S EXCEPT !.cache.chat_threadid[u] = t], thread_id |-> t]
    ELSE [S |-> S, thread_id |-> 0]

\* The write half (lines 494-523): create_forum_topic returns a new thread,
\* its row is inserted and the id cached.
CreateThread(S, T, u) ==
    LET t == T.next
    IN [S |-> [S EXCEPT !.db.topics = @ \cup {[user_id |-> u, thread_id |-> t]},
                        !.cache.chat_threadid[u] = t],
        T |-> [T EXCEPT !.next = @ + 1, !.live = @ \cup {t}],
        thread_id |-> t]

\* _forward_to_group without the delete of the sender's chat_..._threadid.
ForwardToGroupKeepCache(S, T, u, thread_id, send_ok) ==
    IF thread_id \notin T.live
    THEN [S |-> [S EXCEPT !.db.topics = {row \in @ : row.thread_id # thread_id},
                          !.cache.threadid_userid[thread_id] = 0],
          route |-> "thread_lost"]
    ELSE IF send_ok THEN [S |-> S, route |-> "forwarded"]
    ELSE [S |-> S, route |-> "forward_failed"]

\* _forward_to_group: the send into the thread, and the recovery when the
\* platform answers "message thread not found".
ForwardToGroup(S, T, u, thread_id, send_ok) ==
    IF thread_id \notin T.live
    THEN [S |-> [S EXCEPT !.db.topics = {row \in @ : row.thread_id # thread_id},
                          !.cache.threadid_userid[thread_id] = 0,
                          !.cache.chat_threadid[u] = 0],
          route |-> "thread_lost"]
    ELSE IF send_ok THEN [S |-> S, route |-> "forwarded"]
    ELSE [S |-> S, route |-> "forward_failed"]

\* Screen without the query on blocked_users.
ScreenSpamOnly(S, u, spam) == IF spam THEN "spam" ELSE "route"

\* _handle_user_message after _check_captcha let the message pass (lines
\* 74-197): a blocked sender is rejected, a spam verdict diverts the message.
Screen(S, u, spam) ==
    IF S.db.blocked_users[u] # "none" THEN "blocked_rejected"
    ELSE IF spam THEN "spam"
    ELSE "route"

\* _handle_group_message: the owner of the thread, cached when found.
HandleGroupMessage(S, thread_id, send_ok) ==
    LET user_id == IF S.cache.threadid_userid[thread_id] # 0
                   THEN S.cache.threadid_userid[thread_id]
                   ELSE IF \E row \in S.db.topics : row.thread_id = thread_id
                   THEN Min({row.user_id : row \in
                                 {r \in S.db.topics : r.thread_id = thread_id}})
                   ELSE 0
    IN IF user_id # 0
       THEN [S |-> [S EXCEPT !.cache.threadid_userid[thread_id] = user_id],
             u |-> user_id,
             route |-> IF send_ok THEN "delivered" ELSE "deliver_failed"]
       ELSE [S |-> S, u |-> 0, route |-> "orphan_thread"]

\* Whether the router posts a notice in the workspace group on this
\* outcome: "Failed to forward message from user" (lines 547-549), the alert
\* in the thread (574-577), "Chat not found" (579-580).  A failed
\* create_forum_topic is logged only (500-502), and so is nothing at all on
\* "message thread not found" (538-544).
WorkspaceNotice(route) ==
    route \in {"forward_failed", "deliver_failed", "orphan_thread"}

(* ------------------------ message correlation ------------------------ *)
\* A message as the relay reads it: its id in its chat, the id of the message
\* it replies to (0: not a reply) and whether that message's author is the
\* replier (reply_to_message.from_user.id == from_user.id).
Msg(message_id, reply_to, own) ==
    [message_id |-> message_id, reply_to |-> reply_to, own |-> own]

\* _get_reply_id with in_group in place of not in_group in the second query.
GetReplyIdSameFlag(S, message, topic_id, in_group) ==
    LET found ==
            IF message.own
            THEN {row.forwarded_id : row \in
                     {r \in S.db.messages : /\ r.received_id = message.reply_to
                                            /\ r.topic_id = topic_id
                                            /\ r.in_group = in_group}}
            ELSE {row.received_id : row \in
                     {r \in S.db.messages : /\ r.forwarded_id = message.reply_to
                                            /\ r.topic_id = topic_id
                                            /\ r.in_group = in_group}}
    IN IF message.reply_to = 0 \/ found = {} THEN {0} ELSE found

\* _get_reply_id: the ids that its SELECT ... LIMIT 1 can return, {0} for
\* None.  Without ORDER BY any matching row can be the one returned.
GetReplyId(S, message, topic_id, in_group) ==
    IF message.reply_to = 0 THEN {0}
    ELSE LET found ==
                 IF message.own
                 THEN {row.forwarded_id : row \in
                          {r \in S.db.messages : /\ r.received_id = message.reply_to
                                                 /\ r.topic_id = topic_id
                                                 /\ r.in_group = in_group}}
                 ELSE {row.received_id : row \in
                          {r \in S.db.messages : /\ r.forwarded_id = message.reply_to
                                                 /\ r.topic_id = topic_id
                                                 /\ r.in_group = ~in_group}}
         IN IF found # {} THEN found ELSE {0}

\* INSERT INTO messages (received_id, forwarded_id, topic_id, in_group)
InsertMessage(S, received_id, forwarded_id, topic_id, in_group) ==
    [S EXCEPT !.db.messages = @ \cup
        {[received_id |-> received_id, forwarded_id |-> forwarded_id,
          topic_id |-> topic_id, in_group |-> in_group]}]

\* The platform gives a message that appears in a chat the chat's next id.
NewMessage(T, chat) ==
    [T |-> [T EXCEPT !.message_id[chat] = @ + 1],
     message_id |-> T.message_id[chat]]

(* ------------------------- callback handler --------------------------- *)

\* _handle_verify_button
HandleVerifyButton(S, user_id) ==
    IF user_id # 0
    THEN [S |-> ResetAttempts(SetUserVerified(S, user_id), user_id),
          ev |-> "verify_button"]
    ELSE [S |-> S, ev |-> "invalid_user_id"]

\* _handle_appeal_request without the query on appeal_requests.
HandleAppealRequestNoCheck(S, user_id, g) ==
    IF user_id = 0 THEN [S |-> S, ev |-> "invalid_user_id"]
    ELSE IF S.db.blocked_users[user_id] = "none"
    THEN [S |-> S, ev |-> "not_blocked"]
    ELSE LET S1 == [S EXCEPT !.cache.appeal_verification[user_id] = TRUE]
             captcha_type == IF S.cache.setting_captcha \in CaptchaTypes
                             THEN S.cache.setting_captcha ELSE "math"
         IN [S |-> GenerateCaptcha(S1, user_id, captcha_type, g),
             ev |-> "appeal_challenge"]

\* _handle_appeal_request without the query on blocked_users.
HandleAppealRequestNoBlockTest(S, user_id, g) ==
    IF user_id = 0 THEN [S |-> S, ev |-> "invalid_user_id"]
    ELSE IF S.db.appeal_requests[user_id].row
    THEN [S |-> S, ev |-> AlreadyAppealed(S.db.appeal_requests[user_id].status)]
    ELSE LET S1 == [S EXCEPT !.cache.appeal_verification[user_id] = TRUE]
             captcha_type == IF S.cache.setting_captcha \in CaptchaTypes
                             THEN S.cache.setting_captcha ELSE "math"
         IN [S |-> GenerateCaptcha(S1, user_id, captcha_type, g),
             ev |-> "appeal_challenge"]

\* _handle_appeal_request
HandleAppealRequest(S, user_id, g) ==
    IF user_id = 0 THEN [S |-> S, ev |-> "invalid_user_id"]
    ELSE IF S.db.appeal_requests[user_id].row
    THEN [S |-> S, ev |-> AlreadyAppealed(S.db.appeal_requests[user_id].status)]
    ELSE IF S.db.blocked_users[user_id] = "none"
    THEN [S |-> S, ev |-> "not_blocked"]
    ELSE LET S1 == [S EXCEPT !.cache.appeal_verification[user_id] = TRUE]
             captcha_type == IF S.cache.setting_captcha \in CaptchaTypes
                             THEN S.cache.setting_captcha ELSE "math"
         IN [S |-> GenerateCaptcha(S1, user_id, captcha_type, g),
             ev |-> "appeal_challenge"]

\* _handle_approve_appeal without the DELETE from verification_attempts.
HandleApproveAppealKeepAttempts(S, admin, user_id) ==
    [S EXCEPT !.db.appeal_requests[user_id] =
                  IF @.row THEN [@ EXCEPT !.status = "approved",
                                          !.admin_id = admin,
                                          !.handled_at = TRUE]
                  ELSE @,
              !.db.blocked_users[user_id] = "none"]

\* _handle_approve_appeal
HandleApproveAppeal(S, admin, user_id) ==
    [S EXCEPT !.db.appeal_requests[user_id] =
                  IF @.row THEN [@ EXCEPT !.status = "approved",
                                          !.admin_id = admin,
                                          !.handled_at = TRUE]
                  ELSE @,
              !.db.blocked_users[user_id] = "none",
              !.db.verification_attempts[user_id] = NoAttempts]

\* _handle_reject_appeal with the DELETE from blocked_users of the approval.
HandleRejectAppealUnblocks(S, admin, user_id) ==
    [S EXCEPT !.db.appeal_requests[user_id] =
                  IF @.row THEN [@ EXCEPT !.status = "rejected",
                                          !.admin_id = admin,
                                          !.handled_at = TRUE]
                  ELSE @,
              !.db.blocked_users[user_id] = "none"]

\* _handle_reject_appeal
HandleRejectAppeal(S, admin, user_id) ==
    [S EXCEPT !.db.appeal_requests[user_id] =
                  IF @.row THEN [@ EXCEPT !.status = "rejected",
                                          !.admin_id = admin,
                                          !.handled_at = TRUE]
                  ELSE @]

\* handle_callback_query without the test of call.message.chat.id.
HandleCallbackQueryAnyChat(S, data, chat, admin, g) ==
    CASE data.action = "verify_button" -> HandleVerifyButton(S, data.user_id)
      [] data.action = "appeal_request" -> HandleAppealRequest(S, data.user_id, g)
      [] data.action = "approve_appeal" /\ data.user_id # 0 ->
            [S |-> HandleApproveAppeal(S, admin, data.user_id),
             ev |-> "approve_appeal"]
      [] data.action = "reject_appeal" /\ data.user_id # 0 ->
            [S |-> HandleRejectAppeal(S, admin, data.user_id),
             ev |-> "reject_appeal"]
      [] OTHER -> [S |-> S, ev |-> "other_action"]

\* handle_callback_query: data = [action, user_id] (user_id 0: the key is
\* absent), chat = where the pressed button's message is, admin = who pressed.
HandleCallbackQuery(S, data, chat, admin, g) ==
    CASE data.action = "verify_button" -> HandleVerifyButton(S, data.user_id)
      [] data.action = "appeal_request" -> HandleAppealRequest(S, data.user_id, g)
      [] OTHER ->
            IF chat # "group" THEN [S |-> S, ev |-> "not_from_group"]
            ELSE CASE data.action = "approve_appeal" ->
                        IF data.user_id = 0 THEN [S |-> S, ev |-> "invalid_action"]
                        ELSE [S |-> HandleApproveAppeal(S, admin, data.user_id),
                              ev |-> "approve_appeal"]
                   [] data.action = "reject_appeal" ->
                        IF data.user_id = 0 THEN [S |-> S, ev |-> "invalid_action"]
                        ELSE [S |-> HandleRejectAppeal(S, admin, data.user_id),
                              ev |-> "reject_appeal"]
                   [] OTHER -> [S |-> S, ev |-> "other_action"]

(* ------------------------------ state --------------------------------- *)

State == [db |-> db, cache |-> cache]

Idle == [pc |-> "idle", u |-> 0, thread_id |-> 0]

Settings == {"disable"} \cup CaptchaTypes

\* topics(user_id, thread_id): a table without a key, as a set of rows.
NoTopics == {}

\* messages(received_id, forwarded_id, topic_id, in_group): a table without a
\* key, as a set of rows.
NoMessages == {}

EmptyDb ==
    [blocked_users |-> [u \in Users |-> "none"],
     verification_attempts |-> [u \in Users |-> NoAttempts],
     appeal_requests |-> [u \in Users |-> NoAppeal],
     verified_users |-> {},
     topics |-> NoTopics,
     messages |-> NoMessages]

\* The platform before any thread or message exists.
NoPlatform ==
    [live |-> {}, closed |-> {}, next |-> 1,
     message_id |-> [c \in ChatIds |-> 1]]

EmptyCache(sc, am) ==
    [captcha |-> [u \in Users |-> None],
     verified |-> [u \in Users |-> "none"],
     appeal_verification |-> [u \in Users |-> FALSE],
     captcha_rate_limit |-> [u \in Users |-> FALSE],
     chat_threadid |-> [u \in Users |-> 0],
     threadid_userid |-> [t \in ThreadIds |-> 0],
     setting_captcha |-> sc,
     setting_appeal_mode |-> am]

Init ==
    /\ db = EmptyDb
    /\ \E sc \in Settings, am \in {"manual", "auto"} : cache = EmptyCache(sc, am)
    /\ tg = NoPlatform
    /\ units = [k \in 1..MaxUnits |-> Idle]

(* ----------------------------- actions -------------------------------- *)

\* _handle_user_message as one unit of work: the store, the cache and the
\* platform after it, and what it answered (ev: the branch of
\* _check_captcha, ret: its result, route: the router's outcome, count: what
\* record_attempt returned, 0 when it was not called).
HandleUserMessage(S, T, u, text, g, spam, create_ok, send_ok) ==
    LET r == CheckCaptcha(S, u, text, g)
        scr == Screen(r.S, u, spam)
        lk == LookupThread(r.S, u)
        cr == CreateThread(lk.S, T, u)
        out(S1, T1, ret, route) ==
            [S |-> S1, T |-> T1, ev |-> r.ev, ret |-> ret, route |-> route,
             count |-> r.count]
    IN IF ~r.ret THEN out(r.S, T, "deny", "none")
       ELSE IF scr # "route" THEN out(r.S, T, "allow", scr)
       ELSE IF lk.thread_id # 0
       THEN LET f == ForwardToGroup(lk.S, T, u, lk.thread_id, send_ok)
            IN out(f.S, T, "allow", f.route)
       ELSE IF create_ok /\ T.next <= MaxThreads
       THEN LET f == ForwardToGroup(cr.S, cr.T, u, cr.thread_id, send_ok)
            IN out(f.S, cr.T, "allow", f.route)
       ELSE out(lk.S, T, "allow", "create_failed")

\* An inbound private message and what the platform and the spam detector
\* answer while it is handled.
Message(text, g, spam, create_ok, send_ok) ==
    [text |-> text, g |-> g, spam |-> spam, create_ok |-> create_ok,
     send_ok |-> send_ok]

\* The inbound messages the model draws from.  _check_captcha reads the text
\* and the draw only on the paths that deny, the router's inputs are read
\* only after it allowed: each family holds the other's inputs fixed.
Inbound ==
    {Message(text, g, FALSE, TRUE, TRUE) : text \in Texts, g \in Draws}
        \cup {Message(None, NoDraw, spam, create_ok, send_ok) :
                 spam \in BOOLEAN, create_ok \in BOOLEAN, send_ok \in BOOLEAN}

Handled(S, T, u, m) ==
    HandleUserMessage(S, T, u, m.text, m.g, m.spam, m.create_ok, m.send_ok)

\* handle_message for a private chat.
UserMessage(u, m) ==
    LET r == Handled(State, tg, u, m)
    IN /\ db' = r.S.db
       /\ cache' = r.S.cache
       /\ tg' = r.T
       /\ UNCHANGED units

\* handle_message for the workspace group.
GroupMessage(thread_id, send_ok) ==
    LET r == HandleGroupMessage(State, thread_id, send_ok)
    IN /\ db' = r.S.db
       /\ cache' = r.S.cache
       /\ UNCHANGED <<tg, units>>

\* handle_callback_query.  The payload is boundary input: any action with any
\* user id can arrive, whether or not a button carrying it is on display.
CallbackQuery(data, chat, admin, g) ==
    LET r == HandleCallbackQuery(State, data, chat, admin, g)
    IN /\ db' = r.S.db
       /\ cache' = r.S.cache
       /\ UNCHANGED <<tg, units>>

\* admin_handler.set_captcha
AdminSetCaptcha(value) ==
    /\ cache.setting_captcha # value
    /\ cache' = [cache EXCEPT !.setting_captcha = value]
    /\ UNCHANGED <<db, tg, units>>

\* admin_handler.toggle_appeal_mode
AdminToggleAppealMode ==
    /\ cache' = [cache EXCEPT !.setting_appeal_mode =
                    IF @ = "auto" THEN "manual" ELSE "auto"]
    /\ UNCHANGED <<db, tg, units>>

\* A cache entry that was set with a time to live lapses.
CacheExpire(u) ==
    /\ \/ /\ cache.captcha[u] # None
          /\ cache' = [cache EXCEPT !.captcha[u] = None]
       \/ /\ cache.verified[u] # "none"
          /\ cache' = [cache EXCEPT !.verified[u] = "none"]
       \/ /\ cache.appeal_verification[u]
          /\ cache' = [cache EXCEPT !.appeal_verification[u] = FALSE]
       \/ /\ cache.captcha_rate_limit[u]
          /\ cache' = [cache EXCEPT !.captcha_rate_limit[u] = FALSE]
    /\ UNCHANGED <<db, tg, units>>

\* A forum thread is deleted in the workspace.
ThreadDeleted(t) ==
    /\ t \in tg.live
    /\ tg' = [tg EXCEPT !.live = @ \ {t}]
    /\ UNCHANGED <<db, cache, units>>

UserActions == {"verify_button", "appeal_request"}
AdminActions == {"approve_appeal", "reject_appeal", "menu"}
Chats == {"group", "private"}

Data(action, user_id) == [action |-> action, user_id |-> user_id]

Next ==
    \/ \E u \in Clients, m \in Inbound : UserMessage(u, m)
    \/ \E t \in tg.live, send_ok \in BOOLEAN : GroupMessage(t, send_ok)
    \/ \E action \in UserActions, user_id \in Clients \cup {0}, g \in Draws :
          CallbackQuery(Data(action, user_id), "private", 0, g)
    \/ \E action \in AdminActions, user_id \in Clients \cup {0},
          chat \in Chats, admin \in Admins :
          CallbackQuery(Data(action, user_id), chat, admin, NoDraw)
    \/ \E value \in Settings : AdminSetCaptcha(value)
    \/ AdminToggleAppealMode
    \/ \E u \in Clients : CacheExpire(u)
    \/ \E t \in ThreadIds : ThreadDeleted(t)

Spec == Init /\ [][Next]_vars

(* ------------------- the router, unit by unit ------------------------- *)
\* An inbound message whose handler is suspended in a platform call: in
\* create_forum_topic (pc "create") or in the send into the thread (pc
\* "forward").  Its reads and writes on either side of the call run as one
\* step.

\* _handle_user_message up to the first platform call of the router.
Receive(k, u, spam) ==
    /\ units[k].pc = "idle"
    /\ LET r == CheckCaptcha(State, u, None, NoDraw)
           lk == LookupThread(r.S, u)
       IN IF ~r.ret \/ Screen(r.S, u, spam) # "route"
          THEN /\ db' = r.S.db
               /\ cache' = r.S.cache
               /\ UNCHANGED units
          ELSE /\ db' = lk.S.db
               /\ cache' = lk.S.cache
               /\ units' = [units EXCEPT ![k] =
                               IF lk.thread_id # 0
                               THEN [pc |-> "forward", u |-> u,
                                     thread_id |-> lk.thread_id]
                               ELSE [pc |-> "create", u |-> u, thread_id |-> 0]]
    /\ UNCHANGED tg

\* create_forum_topic returns (or raises), and _get_or_create_thread ends.
Create(k, create_ok) ==
    /\ units[k].pc = "create"
    /\ IF create_ok /\ tg.next <= MaxThreads
       THEN LET cr == CreateThread(State, tg, units[k].u)
            IN /\ db' = cr.S.db
               /\ cache' = cr.S.cache
               /\ tg' = cr.T
               /\ units' = [units EXCEPT ![k].pc = "forward",
                                         ![k].thread_id = cr.thread_id]
       ELSE /\ units' = [units EXCEPT ![k] = Idle]
            /\ UNCHANGED <<db, cache, tg>>

\* The send into the thread returns (or raises), and the handler ends.
Forward(k, send_ok) ==
    /\ units[k].pc = "forward"
    /\ LET f == ForwardToGroup(State, tg, units[k].u, units[k].thread_id, send_ok)
       IN /\ db' = f.S.db
          /\ cache' = f.S.cache
    /\ units' = [units EXCEPT ![k] = Idle]
    /\ UNCHANGED tg

\* A deployment whose captcha is disabled: every sender reaches the router.
InitConc ==
    /\ db = EmptyDb
    /\ cache = EmptyCache("disable", "manual")
    /\ tg = NoPlatform
    /\ units = [k \in 1..MaxUnits |-> Idle]

NextConc ==
    \/ \E k \in 1..MaxUnits, u \in Users, spam \in BOOLEAN : Receive(k, u, spam)
    \/ \E k \in 1..MaxUnits, create_ok \in BOOLEAN : Create(k, create_ok)
    \/ \E k \in 1..MaxUnits, send_ok \in BOOLEAN : Forward(k, send_ok)
    \/ \E t \in tg.live, send_ok \in BOOLEAN : GroupMessage(t, send_ok)
    \/ \E t \in ThreadIds : ThreadDeleted(t)

SpecConc == InitConc /\ [][NextConc]_vars

(* ----------------- the math challenge, all operands ------------------- *)
\* A deployment whose challenge kind is math, with the operands drawn from
\* the whole range of generate_captcha and the replies from the integers
\* around the range of the sums.

MathDraw(a, b) == [NoDraw EXCEPT !.a = a, !.b = b]
MathReplies == (0 - 1)..(2 * MathOperandMax + 1)
Reply(text) == Message(text, NoDraw, FALSE, TRUE, TRUE)
Zero == PyStr(<<"0">>)

InitMath ==
    /\ db = EmptyDb
    /\ cache = EmptyCache("math", "manual")
    /\ tg = NoPlatform
    /\ units = [k \in 1..MaxUnits |-> Idle]

\* Every sum is at least 2, so the text "0" is a wrong answer to any
\* challenge: the first disjunct gives every draw to each issuance (first
\* challenge, or the one that follows a wrong answer), the second every
\* reply to each outstanding challenge.
NextMath ==
    \/ \E u \in Clients, a \in 1..MathOperandMax, b \in 1..MathOperandMax :
          UserMessage(u, Message(Zero, MathDraw(a, b), FALSE, TRUE, TRUE))
    \/ \E u \in Clients, n \in MathReplies : UserMessage(u, Reply(PyStr(IntToStr(n))))
    \/ \E u \in Clients : CacheExpire(u)

SpecMath == InitMath /\ [][NextMath]_vars

(* ----------------- the relay and its correlation rows ----------------- *)
\* A deployment whose captcha is disabled, followed with the ids the
\* platform gives to the messages and the rows the relay writes for them,
\* for one client and the admins who answer in the client's threads.

\* What _forward_to_group does after the send of a forward r succeeded
\* (lines 530-536): the row it inserts; reply_id is what _get_reply_id
\* resolved for the send.
InboundRow(r, u, message) ==
    LET thread_id == r.S.cache.chat_threadid[u]
        fwd_msg == NewMessage(r.T, GroupId)
    IN IF r.route = "forwarded"
       THEN [S |-> InsertMessage(r.S, message.message_id, fwd_msg.message_id,
                                 thread_id, FALSE),
             T |-> fwd_msg.T, route |-> r.route,
             reply_id |-> GetReplyId(r.S, message, thread_id, FALSE)]
       ELSE [S |-> r.S, T |-> r.T, route |-> r.route, reply_id |-> {0}]

\* _handle_user_message for a message that carries no text, with its row.
RelayUserMessage(S, T, u, message, spam, create_ok, send_ok) ==
    InboundRow(HandleUserMessage(S, T, u, None, NoDraw, spam, create_ok, send_ok),
               u, message)

\* What _handle_group_message does after the send of a delivery r succeeded
\* (lines 563-570).
OutboundRow(r, T, message, thread_id) ==
    LET fwd_msg == NewMessage(T, r.u)
    IN IF r.route = "delivered"
       THEN [S |-> InsertMessage(r.S, message.message_id, fwd_msg.message_id,
                                 thread_id, TRUE),
             T |-> fwd_msg.T, route |-> r.route,
             reply_id |-> GetReplyId(r.S, message, thread_id, TRUE)]
       ELSE [S |-> r.S, T |-> T, route |-> r.route, reply_id |-> {0}]

\* _handle_group_message with its row.
RelayGroupMessage(S, T, message, thread_id, send_ok) ==
    OutboundRow(HandleGroupMessage(S, thread_id, send_ok), T, message, thread_id)

\* close_forum_topic raising out of the handler: no try around the call.
OrphanThreadNoTry(r, thread_id, close_ok) ==
    IF r.route # "orphan_thread" \/ thread_id \notin r.T.live
    THEN [T |-> r.T, notice |-> 0, close |-> "none",
          raised |-> r.route = "orphan_thread"]
    ELSE [T |-> [NewMessage(r.T, GroupId).T EXCEPT !.closed =
                    IF close_ok THEN @ \cup {thread_id} ELSE @],
          notice |-> thread_id,
          close |-> IF close_ok THEN "closed" ELSE "refused",
          raised |-> ~close_ok]

\* The else branch of _handle_group_message (lines 578-586) after the
\* lookup r found no owner: "Chat not found, please remove this topic
\* manually" is posted in the thread (notice: the thread it is posted in),
\* then close_forum_topic is called, and an ApiTelegramException of that
\* call is passed over.  The send of the notice is outside the try: in a
\* thread that no longer exists it raises and the handler ends there.
OrphanThread(r, thread_id, close_ok) ==
    IF r.route # "orphan_thread" \/ thread_id \notin r.T.live
    THEN [T |-> r.T, notice |-> 0, close |-> "none",
          raised |-> r.route = "orphan_thread"]
    ELSE [T |-> [NewMessage(r.T, GroupId).T EXCEPT !.closed =
                    IF close_ok THEN @ \cup {thread_id} ELSE @],
          notice |-> thread_id,
          close |-> IF close_ok THEN "closed" ELSE "refused",
          raised |-> FALSE]

\* _handle_group_message with its row and, when the thread has no owner,
\* with the notice and the closure.
RelayOutbound(S, T, message, thread_id, send_ok, close_ok) ==
    LET r == RelayGroupMessage(S, T, message, thread_id, send_ok)
        o == OrphanThread(r, thread_id, close_ok)
    IN [S |-> r.S, T |-> o.T, u |-> HandleGroupMessage(S, thread_id, send_ok).u,
        route |-> r.route, reply_id |-> r.reply_id,
        notice |-> o.notice, close |-> o.close, raised |-> o.raised]

\* The unit of work r ends: the platform had an id for each of its messages.
Relayed(r) ==
    /\ \A c \in ChatIds : r.T.message_id[c] <= MaxMessages + 1
    /\ db' = r.S.db
    /\ cache' = r.S.cache
    /\ tg' = r.T
    /\ UNCHANGED units

\* A user writes a message in the private chat and the event is handled.
InboundEvent(u, spam, create_ok, send_ok) ==
    Relayed(RelayUserMessage(State, NewMessage(tg, u).T, u,
                             Msg(tg.message_id[u], 0, FALSE),
                             spam, create_ok, send_ok))

\* _handle_user_message after the forward r of a message that matched an
\* auto response (lines 212-214): the response is posted in the thread.
\* When that send raises, the exception leaves handle_message through the
\* with block, whose connection rolls back what is not committed: the row
\* of the forward.
AutoResponse(r, S, response_ok) ==
    IF r.route # "forwarded" THEN r
    ELSE IF response_ok THEN [r EXCEPT !.T = NewMessage(r.T, GroupId).T]
    ELSE [r EXCEPT !.S.db.messages = S.db.messages]

\* A user writes a message that matches an auto response.
InboundAutoResponse(u, create_ok, send_ok, response_ok) ==
    Relayed(AutoResponse(RelayUserMessage(State, NewMessage(tg, u).T, u,
                                          Msg(tg.message_id[u], 0, FALSE),
                                          FALSE, create_ok, send_ok),
                         State, response_ok))

\* The event of a private message that was forwarded is delivered again.
InboundAgain(u, row, send_ok) ==
    /\ ~row.in_group
    /\ [user_id |-> u, thread_id |-> row.topic_id] \in db.topics
    /\ Relayed(RelayUserMessage(State, tg, u, Msg(row.received_id, 0, FALSE),
                                FALSE, TRUE, send_ok))

\* An admin writes a message in a thread of the group and the event is handled.
OutboundEvent(thread_id, send_ok, close_ok) ==
    /\ thread_id \in tg.live
    /\ Relayed(RelayOutbound(State, NewMessage(tg, GroupId).T,
                             Msg(tg.message_id[GroupId], 0, FALSE),
                             thread_id, send_ok, close_ok))

\* The event of a group message that was delivered is delivered again.
OutboundAgain(row, send_ok, close_ok) ==
    /\ row.in_group
    /\ Relayed(RelayOutbound(State, tg, Msg(row.received_id, 0, FALSE),
                             row.topic_id, send_ok, close_ok))

\* An admin opens a forum thread in the workspace by hand: the platform
\* gives it the next thread id, and no row of topics names it.
ThreadOpened ==
    /\ tg.next <= MaxThreads
    /\ tg' = [tg EXCEPT !.next = @ + 1, !.live = @ \cup {tg.next}]
    /\ UNCHANGED <<db, cache, units>>

InitRelay ==
    /\ db = EmptyDb
    /\ cache = EmptyCache("disable", "manual")
    /\ tg = NoPlatform
    /\ units = [k \in 1..MaxUnits |-> Idle]

NextRelay ==
    \/ \E u \in Clients, spam \in BOOLEAN, create_ok \in BOOLEAN, send_ok \in BOOLEAN :
          InboundEvent(u, spam, create_ok, send_ok)
    \/ \E u \in Clients, create_ok \in BOOLEAN, send_ok \in BOOLEAN,
          response_ok \in BOOLEAN :
          InboundAutoResponse(u, create_ok, send_ok, response_ok)
    \/ \E u \in Clients, row \in db.messages, send_ok \in BOOLEAN :
          InboundAgain(u, row, send_ok)
    \/ \E t \in ThreadIds, send_ok \in BOOLEAN, close_ok \in BOOLEAN :
          OutboundEvent(t, send_ok, close_ok)
    \/ \E row \in db.messages, send_ok \in BOOLEAN, close_ok \in BOOLEAN :
          OutboundAgain(row, send_ok, close_ok)
    \/ ThreadOpened
    \/ \E t \in ThreadIds : ThreadDeleted(t)

SpecRelay == InitRelay /\ [][NextRelay]_vars

(* --------------------------- callback data ---------------------------- *)
\* call.data: the text a pressed button carries.  A text that is not an
\* object literal is kept as its characters; the object literals are kept
\* as the keys they have and the values of action and user_id.

Raw(cs) == [t |-> "raw", cs |-> cs, keys |-> {}, action |-> "", user_id |-> 0]
Json(keys, action, user_id) ==
    [t |-> "object", cs |-> <<>>, keys |-> keys, action |-> action,
     user_id |-> user_id]

RECURSIVE StripLeft(_)
StripLeft(cs) ==
    IF cs # <<>> /\ Head(cs) = " " THEN StripLeft(Tail(cs)) ELSE cs

RECURSIVE StripRight(_)
StripRight(cs) ==
    IF cs # <<>> /\ cs[Len(cs)] = " "
    THEN StripRight(SubSeq(cs, 1, Len(cs) - 1))
    ELSE cs

\* json.loads: the type of the value it returns, or JSONDecodeError.  White
\* space around the value is skipped.
JsonLoads(data) ==
    LET cs == StripRight(StripLeft(data.cs))
        value(type) == [exc |-> "none", type |-> type]
    IN CASE data.t = "object" -> value("dict")
         [] cs = <<"n", "u", "l", "l">> -> value("NoneType")
         [] cs = <<"t", "r", "u", "e">> -> value("bool")
         [] cs = <<"5">> -> value("int")
         [] cs = <<"[", "]">> -> value("list")
         [] cs = <<"{", "}">> -> value("dict")
         [] Len(cs) >= 2 /\ Head(cs) = "\"" /\ cs[Len(cs)] = "\""
                /\ \A i \in 2..(Len(cs) - 1) : cs[i] # "\"" -> value("str")
         [] OTHER -> [exc |-> "JSONDecodeError", type |-> "none"]

\* data["action"]: a dict without the key raises KeyError, a value that is
\* not a dict raises TypeError.
GetAction(parsed, data) ==
    IF parsed.type # "dict" THEN "TypeError"
    ELSE IF "action" \notin data.keys THEN "KeyError"
    ELSE "none"

\* handle_callback_query from call.data on (lines 25-34): the state after
\* it, and the exception that leaves the handler ("none": it returns).
HandleCallbackData(S, data, chat, admin, g) ==
    LET parsed == JsonLoads(data)
        dropped(ev, exc) == [S |-> S, ev |-> ev, raised |-> exc]
    IN IF data.t = "raw" /\ data.cs = <<"n", "u", "l", "l">>
       THEN dropped("invalid_callback_data", "none")
       ELSE IF parsed.exc # "none" THEN dropped("invalid_json", "none")
       ELSE IF GetAction(parsed, data) # "none"
       THEN dropped("raised", GetAction(parsed, data))
       ELSE [S |-> HandleCallbackQuery(S, Data(data.action, data.user_id),
                                       chat, admin, g).S,
             ev |-> "handled", raised |-> "none"]

\* The malformed payloads the model draws from: texts that are not JSON,
\* the JSON null with and without white space, JSON values that are not
\* objects, and objects without the key action.
Malformed ==
    {Raw(<<>>), Raw(<<"o", "k">>), Raw(<<"{">>),
     Raw(<<"n", "u", "l", "l">>), Raw(<<" ", "n", "u", "l", "l">>),
     Raw(<<"n", "u", "l", "l", " ">>),
     Raw(<<"5">>), Raw(<<"t", "r", "u", "e">>), Raw(<<"[", "]">>),
     Raw(<<"\"", "a", "\"">>),
     Raw(<<"{", "}">>)}
        \cup {Json({"user_id"}, "", user_id) : user_id \in Clients}

\* The payloads of the buttons the bot sends to a user.
Buttons ==
    {Json({"action", "user_id"}, action, user_id) :
        action \in UserActions, user_id \in Clients}

(* ------------- the writing transitions, effect by effect -------------- *)
\* The three transitions of _check_captcha that write the store, as the
\* sequence of effects the source performs: a write on the connection's
\* transaction (tx), db.commit(), a cache update, a message sent to the user
\* or the group.  Each send and each cache update names the store write it
\* goes with (about).

Effect(op, what, about, line) ==
    [op |-> op, what |-> what, about |-> about, line |-> line]

\* The right answer: message_handler.py 327-330 with set_user_verified
\* (captcha.py 67-69) and reset_attempts (captcha.py 122-123).
CorrectAnswerSteps ==
    <<Effect("send", "verification_successful", "verified", 327),
      Effect("write", "insert_verified", "verified", 67),
      Effect("commit", "commit", "verified", 68),
      Effect("cache", "set_verified", "verified", 69),
      Effect("write", "delete_attempts", "verified", 122),
      Effect("commit", "commit", "verified", 123),
      Effect("cache", "delete_captcha", "verified", 330)>>

\* The third wrong answer: record_attempt (captcha.py 92-107),
\* block_user_by_attempts (captcha.py 140-159), message_handler.py 302-308.
AutoBlockSteps ==
    <<Effect("write", "record_attempt", "blocked", 92),
      Effect("commit", "commit", "blocked", 107),
      Effect("write", "mark_blocked_by_attempts", "blocked", 140),
      Effect("write", "insert_blocked", "blocked", 149),
      Effect("write", "delete_verified", "blocked", 156),
      Effect("cache", "delete_verified", "blocked", 157),
      Effect("commit", "commit", "blocked", 159),
      Effect("send", "blocked_with_appeal_button", "blocked", 302),
      Effect("cache", "delete_captcha", "blocked", 308)>>

\* The right answer to the appeal challenge: message_handler.py 242-243 and
\* _submit_appeal (395-466), whose second half depends on appeal_mode.
SubmitAppealSteps(appeal_mode) ==
    <<Effect("cache", "delete_appeal_verification", "appeal", 242),
      Effect("cache", "delete_captcha", "appeal", 243),
      Effect("write", "insert_appeal", "appeal", 395),
      Effect("commit", "commit", "appeal", 400),
      Effect("send", "appeal_submitted", "appeal", 403)>>
        \o (IF appeal_mode = "auto"
            THEN <<Effect("write", "delete_blocked", "approved", 419),
                   Effect("write", "approve_appeal", "approved", 420),
                   Effect("commit", "commit", "approved", 426),
                   Effect("send", "appeal_auto_approved", "approved", 428),
                   Effect("send", "auto_appeal_notification", "approved", 434)>>
            ELSE <<Effect("send", "new_appeal_request", "appeal", 458)>>)

\* The branches of _check_captcha that are run effect by effect.
Stepwise ==
    {"correct_answer", "auto_block", "appeal_submitted", "appeal_auto_approved"}

StepsOf(ev) ==
    CASE ev = "correct_answer" -> CorrectAnswerSteps
      [] ev = "auto_block" -> AutoBlockSteps
      [] ev = "appeal_submitted" -> SubmitAppealSteps("manual")
      [] ev = "appeal_auto_approved" -> SubmitAppealSteps("auto")
      [] OTHER -> <<>>

\* A statement executed on the connection: the transaction after it.
Written(tx, u, what) ==
    CASE what = "insert_verified" -> [tx EXCEPT !.verified_users = @ \cup {u}]
      [] what = "delete_attempts" ->
            [tx EXCEPT !.verification_attempts[u] = NoAttempts]
      [] what = "record_attempt" ->
            [tx EXCEPT !.verification_attempts[u] =
                IF @.row THEN [@ EXCEPT !.attempt_count = @ + 1]
                ELSE [row |-> TRUE, attempt_count |-> 1,
                      blocked_by_attempts |-> FALSE]]
      [] what = "mark_blocked_by_attempts" ->
            [tx EXCEPT !.verification_attempts[u].blocked_by_attempts =
                IF tx.verification_attempts[u].row THEN TRUE ELSE @]
      [] what = "insert_blocked" -> [tx EXCEPT !.blocked_users[u] = "auto_attempts"]
      [] what = "delete_verified" -> [tx EXCEPT !.verified_users = @ \ {u}]
      [] what = "insert_appeal" ->
            [tx EXCEPT !.appeal_requests[u] =
                [row |-> TRUE, status |-> "pending", admin_id |-> 0,
                 handled_at |-> FALSE]]
      [] what = "delete_blocked" -> [tx EXCEPT !.blocked_users[u] = "none"]
      [] what = "approve_appeal" ->
            [tx EXCEPT !.appeal_requests[u].status = "approved",
                       !.appeal_requests[u].handled_at = TRUE]
      [] OTHER -> tx

\* cache.set / cache.delete: the cache after it.
Cached(c, u, what) ==
    CASE what = "set_verified" -> [c EXCEPT !.verified[u] = "true"]
      [] what = "delete_verified" -> [c EXCEPT !.verified[u] = "none"]
      [] what = "delete_captcha" -> [c EXCEPT !.captcha[u] = None]
      [] what = "delete_appeal_verification" ->
            [c EXCEPT !.appeal_verification[u] = FALSE]
      [] OTHER -> c

\* One effect on U = [db: the committed store, tx: the connection's
\* transaction, cache]: a commit makes the transaction the store; a send
\* changes neither.
Effected(U, u, e) ==
    CASE e.op = "write" -> [U EXCEPT !.tx = Written(@, u, e.what)]
      [] e.op = "commit" -> [U EXCEPT !.db = U.tx]
      [] e.op = "cache" -> [U EXCEPT !.cache = Cached(@, u, e.what)]
      [] OTHER -> U

\* No unit of work is running.
Resting == [pc |-> 0, u |-> 0, steps |-> <<>>, tx |-> EmptyDb]

\* A message that takes one of the writing branches starts its unit of
\* work: the connection is opened on the committed store.
Begin(u, m) ==
    /\ units.pc = 0
    /\ Handled(State, tg, u, m).ev \in Stepwise
    /\ units' = [pc |-> 1, u |-> u, steps |-> StepsOf(Handled(State, tg, u, m).ev),
                 tx |-> db]
    /\ UNCHANGED <<db, cache, tg>>

\* The next effect of the running unit of work.
Step ==
    /\ units.pc \in 1..Len(units.steps)
    /\ LET U == Effected([db |-> db, tx |-> units.tx, cache |-> cache],
                         units.u, units.steps[units.pc])
       IN /\ db' = U.db
          /\ cache' = U.cache
          /\ units' = [units EXCEPT !.pc = @ + 1, !.tx = U.tx]
    /\ UNCHANGED tg

\* _check_captcha returns False and the connection is closed.
Finish ==
    /\ units.pc = Len(units.steps) + 1
    /\ units.pc > 1
    /\ units' = Resting
    /\ UNCHANGED <<db, cache, tg>>

\* Any other message, handled as one unit of work.
OtherMessage(u, m) ==
    /\ units.pc = 0
    /\ Handled(State, tg, u, m).ev \notin Stepwise
    /\ UserMessage(u, m)

\* A callback query from a private chat, with whatever text it carries.
UserCallback(data, g) ==
    /\ units.pc = 0
    /\ LET r == HandleCallbackData(State, data, "private", 0, g)
       IN /\ db' = r.S.db
          /\ cache' = r.S.cache
    /\ UNCHANGED <<tg, units>>

\* A deployment with a challenge kind that stores an answer.
InitOrder ==
    /\ db = EmptyDb
    /\ \E sc \in {"math", "image"}, am \in {"manual", "auto"} :
          cache = EmptyCache(sc, am)
    /\ tg = NoPlatform
    /\ units = Resting

NextOrder ==
    \/ \E u \in Clients, m \in Inbound : Begin(u, m)
    \/ Step
    \/ Finish
    \/ \E u \in Clients, m \in Inbound : OtherMessage(u, m)
    \/ \E data \in Buttons \cup Malformed, g \in Draws : UserCallback(data, g)

SpecOrder == InitOrder /\ [][NextOrder]_vars

(* --------------------------- the migration ---------------------------- *)
\* The store as the migration sees it: which of its two tables exist,
\* whether blocked_users has the column block_reason, and the rows of
\* settings in rowid order.  key_unique: whether the settings table the
\* migration finds has a uniqueness constraint on key.

NewTables == {"verification_attempts", "appeal_requests"}

SettingValues ==
    [appeal_mode |-> {"manual", "auto"},
     captcha_image_enabled |-> {"disable", "enable"}]

\* The prerequisite tables alone, as before the first run.
Unmigrated(key_unique) ==
    [tables |-> {}, block_reason |-> FALSE, key_unique |-> key_unique,
     settings |-> <<>>]

\* CREATE TABLE IF NOT EXISTS
CreateTableIfNotExists(D, name) == [D EXCEPT !.tables = @ \cup {name}]

\* PRAGMA table_info(blocked_users), and ALTER TABLE ... ADD COLUMN when
\* block_reason is not among the columns.
AddBlockReason(D) ==
    IF ~D.block_reason THEN [D EXCEPT !.block_reason = TRUE] ELSE D

\* INSERT OR IGNORE INTO settings (key, value): the row is skipped when it
\* violates a constraint of the table, and inserted otherwise.
InsertOrIgnore(D, key, value) ==
    IF D.key_unique /\ \E i \in 1..Len(D.settings) : D.settings[i].key = key
    THEN D
    ELSE [D EXCEPT !.settings = Append(@, [key |-> key, value |-> value])]

\* upgrade(db_path): five statements, each in its own try block; ok[i] is
\* whether statement i succeeds (a failure is logged and rolled back, and
\* the next statement runs).
Upgrade(D, ok) ==
    LET D1 == IF ok[1] THEN CreateTableIfNotExists(D, "verification_attempts")
              ELSE D
        D2 == IF ok[2] THEN CreateTableIfNotExists(D1, "appeal_requests") ELSE D1
        D3 == IF ok[3] THEN AddBlockReason(D2) ELSE D2
        D4 == IF ok[4] THEN InsertOrIgnore(D3, "appeal_mode", "manual") ELSE D3
    IN IF ok[5] THEN InsertOrIgnore(D4, "captcha_image_enabled", "disable")
       ELSE D4

\* The migration is run.
Migrate(ok) ==
    /\ Len(Upgrade(db, ok).settings) <= MaxSettingsRows
    /\ db' = Upgrade(db, ok)
    /\ UNCHANGED <<cache, tg, units>>

\* An admin changes a setting: UPDATE settings SET value = ? WHERE key = ?.
SetSetting(key, value) ==
    /\ \E i \in 1..Len(db.settings) :
          db.settings[i].key = key /\ db.settings[i].value # value
    /\ db' = [db EXCEPT !.settings =
                 [i \in 1..Len(@) |->
                     IF @[i].key = key THEN [key |-> key, value |-> value]
                     ELSE @[i]]]
    /\ UNCHANGED <<cache, tg, units>>

InitMigrate ==
    /\ \E key_unique \in BOOLEAN : db = Unmigrated(key_unique)
    /\ cache = EmptyCache("disable", "manual")
    /\ tg = NoPlatform
    /\ units = Resting

NextMigrate ==
    \/ \E ok \in [1..5 -> BOOLEAN] : Migrate(ok)
    \/ \E key \in DOMAIN SettingValues :
          \E value \in SettingValues[key] : SetSetting(key, value)

SpecMigrate == InitMigrate /\ [][NextMigrate]_vars

(* ---------------- wrong answers, unit by unit ------------------------- *)
\* The wrong answers of one user, each handled by a unit of work of its own
\* connection: a unit is at "new" before its message is handled, at "select"
\* when record_attempt has read the count, at "recorded" when record_attempt
\* has committed and returned, at "done" when the handler has ended (raised:
\* by an exception).

\* record_attempt, its SELECT (captcha.py:85-88): the row it sees.
SelectAttemptCount(S, u) == S.db.verification_attempts[u]

\* record_attempt after its SELECT returned seen (captcha.py:90-108): the
\* UPDATE writes seen + 1 into the row there is, the INSERT of a first
\* attempt fails on UNIQUE(user_id) when a row has appeared since.
WriteAttemptCount(S, u, seen) ==
    IF seen.row
    THEN [S |-> IF S.db.verification_attempts[u].row
                THEN [S EXCEPT !.db.verification_attempts[u].attempt_count =
                                   seen.attempt_count + 1]
                ELSE S,
          new_count |-> seen.attempt_count + 1, raised |-> FALSE]
    ELSE IF S.db.verification_attempts[u].row
    THEN [S |-> S, new_count |-> 0, raised |-> TRUE]
    ELSE [S |-> [S EXCEPT !.db.verification_attempts[u] =
                    [row |-> TRUE, attempt_count |-> 1,
                     blocked_by_attempts |-> FALSE]],
          new_count |-> 1, raised |-> FALSE]

\* The answer branch of _check_captcha after record_attempt returned
\* attempt_count for a wrong answer (message_handler.py:282-323).
AfterAttempt(S, u, attempt_count, g) ==
    IF attempt_count >= MaxAttempts
    THEN [BlockUserByAttempts(S, u) EXCEPT !.cache.captcha[u] = None]
    ELSE GenerateCaptcha(S, u, S.cache.setting_captcha, g)

NewAnswer == [pc |-> "new", u |-> 0, seen |-> NoAttempts, new_count |-> 0,
              raised |-> FALSE]

\* _check_captcha up to the SELECT of record_attempt, for a message that is
\* a wrong answer to the outstanding challenge of a user who is not blocked.
Select(k, u, text) ==
    /\ units[k].pc = "new"
    /\ cache.setting_captcha # "disable"
    /\ db.blocked_users[u] = "none"
    /\ cache.captcha[u] # None
    /\ ~VerifyCaptcha(State, u, text)
    /\ units' = [units EXCEPT ![k] = [NewAnswer EXCEPT
                     !.pc = "select", !.u = u,
                     !.seen = SelectAttemptCount(State, u)]]
    /\ UNCHANGED <<db, cache, tg>>

\* record_attempt writes, commits and returns, or raises.
Write(k) ==
    /\ units[k].pc = "select"
    /\ LET w == WriteAttemptCount(State, units[k].u, units[k].seen)
       IN /\ db' = w.S.db
          /\ units' = [units EXCEPT ![k].pc = IF w.raised THEN "done" ELSE "recorded",
                                    ![k].new_count = w.new_count,
                                    ![k].raised = w.raised]
    /\ UNCHANGED <<cache, tg>>

\* The handler goes on from the count that record_attempt returned, and ends.
Decide(k, g) ==
    /\ units[k].pc = "recorded"
    /\ LET S1 == AfterAttempt(State, units[k].u, units[k].new_count, g)
       IN /\ db' = S1.db
          /\ cache' = S1.cache
    /\ units' = [units EXCEPT ![k].pc = "done"]
    /\ UNCHANGED tg

\* The message of an unverified user without an outstanding challenge: the
\* challenge is issued.
FirstMessage(u, g) ==
    /\ cache.captcha[u] = None
    /\ db.blocked_users[u] = "none"
    /\ \A k \in 1..MaxAnswers : units[k].pc \in {"new", "done"}
    /\ LET r == Handled(State, tg, u, Message(None, g, FALSE, TRUE, TRUE))
       IN /\ r.ev = "challenge_issued"
          /\ db' = r.S.db
          /\ cache' = r.S.cache
    /\ UNCHANGED <<tg, units>>

InitAnswers ==
    /\ db = EmptyDb
    /\ \E sc \in {"math", "image"} : cache = EmptyCache(sc, "manual")
    /\ tg = NoPlatform
    /\ units = [k \in 1..MaxAnswers |-> NewAnswer]

NextAnswers ==
    \/ \E u \in Clients, g \in Draws : FirstMessage(u, g)
    \/ \E k \in 1..MaxAnswers, u \in Clients, text \in Texts : Select(k, u, text)
    \/ \E k \in 1..MaxAnswers : Write(k)
    \/ \E k \in 1..MaxAnswers, g \in Draws : Decide(k, g)

SpecAnswers == InitAnswers /\ [][NextAnswers]_vars

(* ------------------------------ claims -------------------------------- *)

\* The outcomes of the router in which the message was submitted to the
\* transport for the sender's thread, and those in which a thread was
\* resolved or its creation attempted.
Submitted == {"forwarded", "forward_failed", "thread_lost"}
Resolved == Submitted \cup {"create_failed"}

\* admit's allow, in terms of the state the message is handled in.
Admitted(S, u) ==
    /\ S.db.blocked_users[u] = "none"
    /\ \/ S.cache.setting_captcha = "disable"
       \/ /\ IsUserVerified(S, u).verified
          /\ S.cache.captcha[u] = None

\* C1: an inbound message has a thread resolved or created for it, and is
\* submitted to the transport for that thread, only if _check_captcha
\* returned True for it and the sender has no blocked_users row and (captcha
\* is disabled or the sender is verified with no outstanding challenge); a
\* message of a sender with a blocked_users row reaches no thread and no
\* spam topic, and creates no thread.
C1_ForwardOnlyIfAdmitted ==
    \A u \in Clients, m \in Inbound :
        LET r == Handled(State, tg, u, m)
        IN /\ (r.route \in Resolved \/ r.T # tg) =>
                  r.ret = "allow" /\ Admitted(State, u)
           /\ db.blocked_users[u] # "none" =>
                  r.route \in {"none", "blocked_rejected"} /\ r.T = tg

\* C1 witness: a verified sender's message, handled with captcha enabled,
\* for which a thread is created and the message forwarded into it.
C1_Witness ==
    \E u \in Clients, m \in Inbound :
        LET r == Handled(State, tg, u, m)
        IN /\ cache.setting_captcha # "disable"
           /\ r.route = "forwarded"
           /\ r.T.next = tg.next + 1

\* C2: the topics store holds at most one row per user id and at most one
\* row per thread id.
C2_TopicsUnique ==
    \A r1 \in db.topics, r2 \in db.topics :
        (r1.user_id = r2.user_id \/ r1.thread_id = r2.thread_id) => r1 = r2

\* The message is taken as the answer to an outstanding challenge of a sender
\* who is not blocked, and the answer is wrong.
WrongAnswer(S, u, text) ==
    /\ S.cache.setting_captcha # "disable"
    /\ S.db.blocked_users[u] = "none"
    /\ S.cache.captcha[u] # None
    /\ ~VerifyCaptcha(S, u, text)

C3_BlockedAtThree ==
    \A u \in Clients, m \in Inbound :
        LET r == Handled(State, tg, u, m)
        IN r.count >= 3 => r.S.db.blocked_users[u] = "auto_attempts"

C3_OnlyByThirdWrongAnswer ==
    \A u \in Users :
        (db.blocked_users[u] # "auto_attempts"
            /\ db'.blocked_users[u] = "auto_attempts") =>
        \E m \in Inbound :
            /\ UserMessage(u, m)
            /\ WrongAnswer(State, u, m.text)
            /\ Handled(State, tg, u, m).count >= 3
            /\ GetAttemptCount([db |-> db', cache |-> cache'], u) >= 3

\* C3: every unit of work in which record_attempt returns a count >= 3 ends
\* with the user in blocked_users with reason auto_attempts, and a row with
\* that reason appears only in a unit of work in which a wrong answer to an
\* outstanding challenge brought the user's attempt_count to 3 or more.
C3_AutoBlockIffThreeAttempts ==
    [](C3_BlockedAtThree) /\ [][C3_OnlyByThirdWrongAnswer]_vars

\* C3 witness: the user's attempt_count is 2 and a wrong answer is about to
\* be recorded as the third.
C3_Witness ==
    \E u \in Clients, m \in Inbound :
        /\ WrongAnswer(State, u, m.text)
        /\ Handled(State, tg, u, m).count = 3
        /\ Handled(State, tg, u, m).S.db.blocked_users[u] = "auto_attempts"

\* The message is taken as the answer to an outstanding challenge of a sender
\* who is not blocked, and the answer is right.
RightAnswer(S, u, text) ==
    /\ S.cache.setting_captcha # "disable"
    /\ S.db.blocked_users[u] = "none"
    /\ VerifyCaptcha(S, u, text)

Post == [db |-> db', cache |-> cache']

C4_RecordAndGet ==
    \A u \in Users :
        LET row == db.verification_attempts[u]
            r == RecordAttempt(State, u)
        IN /\ ~row.row => GetAttemptCount(State, u) = 0
           /\ row.row => GetAttemptCount(State, u) = row.attempt_count
           /\ r.new_count = (IF row.row THEN row.attempt_count + 1 ELSE 1)
           /\ r.S.db.verification_attempts[u].row
           /\ r.S.db.verification_attempts[u].attempt_count = r.new_count
           /\ LET z == ResetAttempts(State, u)
              IN ~z.db.verification_attempts[u].row /\ GetAttemptCount(z, u) = 0

C4_OnlyIncrementOrReset ==
    \A u \in Users :
        LET before == db.verification_attempts[u]
            after == db'.verification_attempts[u]
        IN (before.row # after.row \/ before.attempt_count # after.attempt_count) =>
           \/ /\ after.row
              /\ GetAttemptCount(Post, u) = GetAttemptCount(State, u) + 1
              /\ \E m \in Inbound :
                    UserMessage(u, m) /\ WrongAnswer(State, u, m.text)
           \/ /\ ~after.row
              /\ GetAttemptCount(Post, u) = 0
              /\ \/ \E m \in Inbound :
                       UserMessage(u, m) /\ RightAnswer(State, u, m.text)
                 \/ CallbackQuery(Data("verify_button", u), "private", 0, NoDraw)
                 \/ \E admin \in Admins :
                       CallbackQuery(Data("approve_appeal", u), "group", admin, NoDraw)

\* C4: record_attempt returns 1 when the user has no row and the previous
\* count + 1 otherwise, and stores what it returns; get_attempt_count returns
\* 0 when there is no row; and a user's stored attempt_count changes only by
\* +1, in a unit of work that takes a message as a wrong answer to the
\* user's outstanding challenge, or by deletion of the row (count 0), in a
\* unit of work that is a right answer, a button confirmation or an appeal
\* approval action.
C4_AttemptCountIncrementOrReset ==
    [](C4_RecordAndGet) /\ [][C4_OnlyIncrementOrReset]_vars

\* C4 witness: a user whose stored count is 2 gives a right answer, which
\* deletes the row.
C4_Witness ==
    \E u \in Clients, m \in Inbound :
        /\ db.verification_attempts[u].attempt_count = 2
        /\ RightAnswer(State, u, m.text)
        /\ ~Handled(State, tg, u, m).S.db.verification_attempts[u].row

\* The message that answers an appeal request, by the stored status.
C5_Message(status) ==
    CASE status = "pending" -> "appeal_already_pending"
      [] status = "approved" -> "appeal_already_approved"
      [] status = "rejected" -> "appeal_already_rejected"

C5_RepeatRequestRefused ==
    \A u \in Clients :
        db.appeal_requests[u].row =>
            /\ db.appeal_requests[u].status \in {"pending", "approved", "rejected"}
            /\ \A g \in Draws, chat \in Chats :
                  LET r == HandleCallbackQuery(State, Data("appeal_request", u),
                                               chat, 0, g)
                  IN /\ r.S = State
                     /\ r.ev = C5_Message(db.appeal_requests[u].status)
            /\ \A m \in Inbound :
                  LET r == Handled(State, tg, u, m)
                  IN /\ r.S.db.appeal_requests = db.appeal_requests
                     /\ ~r.S.cache.appeal_verification[u]

C5_NeverDeleted ==
    \A u \in Users : db.appeal_requests[u].row => db'.appeal_requests[u].row

\* C5: no appeal_requests row is ever deleted (the table is UNIQUE on
\* user_id, so a user has at most the one row), and once a user has a row an
\* appeal request by that user leaves the store and the cache as they are
\* (no row, no appeal-verification flag, no challenge) and is answered by
\* the stored status alone; no message of that user creates or changes a row.
C5_OneAppealPerUser ==
    [](C5_RepeatRequestRefused) /\ [][C5_NeverDeleted]_vars

\* C5 witness: a user who is blocked again after an approved appeal, where
\* only the query on appeal_requests stands between a request and a challenge.
C5_Witness ==
    \E u \in Clients :
        /\ db.appeal_requests[u].status = "approved"
        /\ db.blocked_users[u] # "none"
        /\ HandleCallbackQuery(State, Data("appeal_request", u), "private", 0,
                               NoDraw).ev = "appeal_already_approved"

\* C6: an approve or reject action on an AppealRequest whose status is
\* already approved or rejected changes no store row.
C6_ResolveOnlyWhilePending ==
    \A u \in Clients, admin \in Admins, action \in {"approve_appeal", "reject_appeal"} :
        db.appeal_requests[u].status \in {"approved", "rejected"} =>
            HandleCallbackQuery(State, Data(action, u), "group", admin,
                                NoDraw).S.db = db

\* C7: an approve or reject action for a user who has no AppealRequest row is
\* answered as an invalid action and changes no store row.
C7_ResolveWithoutAppealIsInvalid ==
    \A u \in Clients, admin \in Admins, action \in {"approve_appeal", "reject_appeal"} :
        ~db.appeal_requests[u].row =>
            LET r == HandleCallbackQuery(State, Data(action, u), "group", admin,
                                         NoDraw)
            IN r.ev = "invalid_action" /\ r.S.db = db

\* C8: when a user whose attempt_count is 2 gives a wrong answer to an
\* outstanding challenge, the unit of work ends with attempt_count 3, the
\* user in blocked_users with reason auto_attempts, no verified_users row
\* and no true verified cache flag, no stored challenge answer, and the
\* message denied.
C8_ThirdWrongAnswerBlocks ==
    \A u \in Clients, m \in Inbound :
        (/\ cache.setting_captcha # "disable"
         /\ cache.captcha[u] # None
         /\ db.verification_attempts[u].row
         /\ db.verification_attempts[u].attempt_count = 2
         /\ ~VerifyCaptcha(State, u, m.text)) =>
            LET r == Handled(State, tg, u, m)
            IN /\ r.S.db.verification_attempts[u].attempt_count = 3
               /\ r.S.db.blocked_users[u] = "auto_attempts"
               /\ u \notin r.S.db.verified_users
               /\ r.S.cache.verified[u] # "true"
               /\ r.S.cache.captcha[u] = None
               /\ r.ret = "deny"
               /\ r.route = "none"
               /\ r.T = tg

\* C8 witness: a verified user (row and true cache flag) with attempt_count 2
\* and an outstanding challenge, about to give a wrong answer.
C8_Witness ==
    \E u \in Clients, m \in Inbound :
        /\ cache.setting_captcha # "disable"
        /\ cache.captcha[u] # None
        /\ db.verification_attempts[u].attempt_count = 2
        /\ u \in db.verified_users
        /\ cache.verified[u] = "true"
        /\ ~VerifyCaptcha(State, u, m.text)

\* The unit of work took the message as the right answer of a user who is
\* not blocked: the user is verified in store and cache, has no attempts
\* row and no outstanding challenge, and the message went no further.
C9_Accepted(r, u) ==
    /\ r.ev = "correct_answer"
    /\ r.route = "none"
    /\ u \in r.S.db.verified_users
    /\ r.S.cache.verified[u] = "true"
    /\ ~r.S.db.verification_attempts[u].row
    /\ r.S.cache.captcha[u] = None
    /\ Handled(r.S, r.T, u, Reply(None)).ret = "allow"

\* The challenge that _check_captcha issues with operands a and b stores
\* a + b, and the reply with the decimal string of a + b is accepted.
C9_IssueThenRight(ret) ==
    \A u \in Clients, a \in 1..MathOperandMax, b \in 1..MathOperandMax :
        LET r1 == Handled(State, tg, u, Message(Zero, MathDraw(a, b), FALSE, TRUE, TRUE))
            r2 == Handled(r1.S, r1.T, u, Reply(PyStr(IntToStr(a + b))))
        IN r1.ev \in {"challenge_issued", "wrong_answer"} =>
              /\ r1.S.cache.captcha[u] = PyInt(a + b)
              /\ C9_Accepted(r2, u)
              /\ r2.ret = ret

\* The reply with the decimal string of any other integer is denied and adds
\* 1 to the stored attempt count.
C9_OtherIntegerWrong ==
    \A u \in Clients, n \in MathReplies :
        (/\ cache.setting_captcha # "disable"
         /\ db.blocked_users[u] = "none"
         /\ cache.captcha[u].t = "int"
         /\ cache.captcha[u].i # n) =>
            LET r == Handled(State, tg, u, Reply(PyStr(IntToStr(n))))
            IN /\ r.ret = "deny"
               /\ r.count = GetAttemptCount(State, u) + 1
               /\ GetAttemptCount(r.S, u) = GetAttemptCount(State, u) + 1

\* C9 (as amended): for every math challenge that _check_captcha issues to a
\* user who is not blocked, with operands a and b in 1..50, the stored
\* answer is a + b; a reply whose text is the decimal string of a + b is
\* accepted (the user becomes verified, the attempts row is deleted, the
\* challenge is cleared and the user's next message is allowed) but is
\* itself denied: _check_captcha returns False for it and it is not
\* forwarded; a reply whose text is the decimal string of any other integer
\* is denied and increases the attempt counter by exactly 1.
C9_RightAnswerAcceptedAndConsumed ==
    C9_IssueThenRight("deny") /\ C9_OtherIntegerWrong

\* C9 (as stated): the reply with the decimal string of a + b yields allow,
\* and any other integer yields deny and adds 1 to the attempt counter.
C9_RightAnswerAllows ==
    C9_IssueThenRight("allow") /\ C9_OtherIntegerWrong

\* C9 witness: the challenge of the largest operands (50 + 50) is outstanding
\* after an earlier wrong answer, and both a right and a wrong reply to it
\* are among the replies.
C9_Witness ==
    \E u \in Clients :
        /\ cache.captcha[u] = PyInt(2 * MathOperandMax)
        /\ db.verification_attempts[u].attempt_count = 1
        /\ db.blocked_users[u] = "none"
        /\ {2 * MathOperandMax, 2 * MathOperandMax + 1} \subseteq MathReplies

C10_Request ==
    \A u \in Clients, g \in Draws :
        (db.blocked_users[u] # "none" /\ ~db.appeal_requests[u].row) =>
            LET r == HandleCallbackQuery(State, Data("appeal_request", u),
                                         "private", 0, g)
            IN /\ r.S.db = db
               /\ r.S.cache.appeal_verification[u]
               /\ cache.setting_captcha = "math" =>
                      r.S.cache.captcha[u] = PyInt(g.a + g.b)
               /\ cache.setting_captcha = "image" =>
                      r.S.cache.captcha[u] = PyStr(g.code)

C10_Answer ==
    \A u \in Clients, m \in Inbound :
        (/\ cache.setting_appeal_mode = "manual"
         /\ cache.setting_captcha # "disable"
         /\ db.blocked_users[u] # "none"
         /\ ~db.appeal_requests[u].row
         /\ cache.appeal_verification[u]
         /\ VerifyCaptcha(State, u, m.text)) =>
            LET r == Handled(State, tg, u, m)
            IN /\ r.S.db.appeal_requests[u] =
                      [row |-> TRUE, status |-> "pending", admin_id |-> 0,
                       handled_at |-> FALSE]
               /\ r.S.db.blocked_users = db.blocked_users
               /\ r.S.db.verification_attempts = db.verification_attempts
               /\ r.ret = "deny"

C10_Approve ==
    \A u \in Clients, admin \in Admins :
        db.appeal_requests[u].status = "pending" =>
            LET r == HandleCallbackQuery(State, Data("approve_appeal", u),
                                         "group", admin, NoDraw)
            IN /\ r.S.db.blocked_users[u] = "none"
               /\ ~r.S.db.verification_attempts[u].row
               /\ r.S.db.appeal_requests[u] =
                      [row |-> TRUE, status |-> "approved", admin_id |-> admin,
                       handled_at |-> TRUE]

\* C10: with appeal_mode manual, a blocked user without AppealRequest who
\* requests an appeal gets the appeal-verification flag and a challenge; a
\* right answer to it while the flag is set creates an AppealRequest with
\* status pending and leaves blocked_users as it is; an admin's approval of
\* a pending AppealRequest deletes the user's blocked_users and
\* verification_attempts rows and sets status approved with that admin's id.
C10_ManualAppealThenApproval ==
    C10_Request /\ C10_Answer /\ C10_Approve

\* C10 witness: a blocked user whose attempts row is still stored has a
\* pending AppealRequest, in manual mode, that an admin can approve.
C10_Witness ==
    \E u \in Clients :
        /\ cache.setting_appeal_mode = "manual"
        /\ db.appeal_requests[u].status = "pending"
        /\ db.blocked_users[u] = "auto_attempts"
        /\ db.verification_attempts[u].attempt_count = 3

\* The message is the answer of a blocked user to the challenge of an appeal
\* request, and the answer is right.
AppealAnswer(S, u, text) ==
    /\ S.cache.setting_captcha # "disable"
    /\ S.db.blocked_users[u] # "none"
    /\ S.cache.appeal_verification[u]
    /\ VerifyCaptcha(S, u, text)

C11_AutoApproved ==
    \A u \in Clients, m \in Inbound :
        (/\ cache.setting_appeal_mode = "auto"
         /\ ~db.appeal_requests[u].row
         /\ AppealAnswer(State, u, m.text)) =>
            LET r == Handled(State, tg, u, m)
            IN /\ r.ev = "appeal_auto_approved"
               /\ r.S.db.appeal_requests[u] =
                      [row |-> TRUE, status |-> "approved", admin_id |-> 0,
                       handled_at |-> TRUE]
               /\ r.S.db.blocked_users[u] = "none"
               /\ r.ret = "deny"

C11_NeverLeftPending ==
    \A u \in Users :
        (/\ cache.setting_appeal_mode = "auto"
         /\ db.appeal_requests[u].status # "pending") =>
            db'.appeal_requests[u].status # "pending"

\* C11: with appeal_mode auto, the unit of work in which a blocked user
\* without AppealRequest gives the right answer to the appeal challenge ends
\* with the AppealRequest approved (handled, with no admin id) and the
\* user's blocked_users row deleted; and no step taken in auto mode leaves
\* an AppealRequest pending that was not pending before it.
C11_AutoAppealApprovedAtOnce ==
    [](C11_AutoApproved) /\ [][C11_NeverLeftPending]_vars

\* C11 witness: in auto mode a blocked user without AppealRequest has the
\* appeal challenge outstanding and the right answer is among the messages.
C11_Witness ==
    \E u \in Clients, m \in Inbound :
        /\ cache.setting_appeal_mode = "auto"
        /\ ~db.appeal_requests[u].row
        /\ db.blocked_users[u] = "auto_attempts"
        /\ AppealAnswer(State, u, m.text)

\* C12: a unit of work that approves an appeal, the admin's approve action
\* or the automatic approval of auto mode, ends with no verification_attempts
\* row for the user, and the user's next wrong answer to a challenge is
\* counted as the first.
C12_ApprovalResetsAttempts ==
    /\ \A u \in Clients, admin \in Admins :
          db.appeal_requests[u].status = "pending" =>
              ~HandleCallbackQuery(State, Data("approve_appeal", u), "group",
                                   admin, NoDraw).S.db.verification_attempts[u].row
    /\ \A u \in Clients, m \in Inbound :
          LET r == Handled(State, tg, u, m)
          IN r.ev = "appeal_auto_approved" =>
                /\ ~r.S.db.verification_attempts[u].row
                /\ RecordAttempt(r.S, u).new_count = 1

C13_UserActionsKeepBlock ==
    \A u \in Clients :
        (/\ db.appeal_requests[u].status \in {"approved", "rejected"}
         /\ db.blocked_users[u] # "none") =>
            /\ \A m \in Inbound :
                  LET r == Handled(State, tg, u, m)
                  IN /\ r.S.db.blocked_users = db.blocked_users
                     /\ r.S.db.appeal_requests = db.appeal_requests
                     /\ r.route \in {"none", "blocked_rejected"}
            /\ \A action \in UserActions, chat \in Chats, g \in Draws :
                  LET r == HandleCallbackQuery(State, Data(action, u), chat, 0, g)
                  IN /\ r.S.db.blocked_users = db.blocked_users
                     /\ r.S.db.appeal_requests = db.appeal_requests

C13_RejectKeepsBlock ==
    \A u \in Clients, admin \in Admins :
        LET r == HandleCallbackQuery(State, Data("reject_appeal", u), "group",
                                     admin, NoDraw)
        IN /\ r.S.db.blocked_users = db.blocked_users
           /\ db.appeal_requests[u].row =>
                  r.S.db.appeal_requests[u].status = "rejected"

C13_OnlyAdminUnblocks ==
    \A u \in Users :
        (/\ db.appeal_requests[u].status \in {"approved", "rejected"}
         /\ db.blocked_users[u] # "none"
         /\ \/ db'.blocked_users[u] = "none"
            \/ db'.appeal_requests[u] # db.appeal_requests[u]) =>
            \E action \in {"approve_appeal", "reject_appeal"}, admin \in Admins :
                CallbackQuery(Data(action, u), "group", admin, NoDraw)

\* C13: while a user's AppealRequest is approved or rejected and the user
\* has a blocked_users row, no message of the user (challenge answers
\* included), no appeal request and no button confirmation changes
\* blocked_users or appeal_requests, and no such message reaches the router;
\* the only steps that remove the block or change the AppealRequest are an
\* admin's approve or reject action; a reject action leaves blocked_users
\* as it is.
C13_ResolvedAppealBlockStays ==
    [](C13_UserActionsKeepBlock /\ C13_RejectKeepsBlock)
        /\ [][C13_OnlyAdminUnblocks]_vars

\* C13 witness: a user whose appeal was approved is blocked again by three
\* wrong answers, with captcha enabled.
C13_Witness ==
    \E u \in Clients :
        /\ db.appeal_requests[u].status = "approved"
        /\ db.blocked_users[u] = "auto_attempts"
        /\ db.verification_attempts[u].attempt_count >= 3
        /\ cache.setting_captcha # "disable"

\* A message that the platform and the spam detector let through.
Plain == Message(None, NoDraw, FALSE, TRUE, TRUE)

C15_CorrelationUnique ==
    \A r1 \in db.messages, r2 \in db.messages :
        (r1.topic_id = r2.topic_id /\ r1.in_group = r2.in_group) =>
            /\ r1.received_id = r2.received_id => r1.forwarded_id = r2.forwarded_id
            /\ r1.forwarded_id = r2.forwarded_id => r1.received_id = r2.received_id

\* The replies the relay can be given: a message of any id that replies to a
\* message of any id, of the replier's own or not, or to none.
Replies ==
    {Msg(message_id, reply_to, own) :
        message_id \in 1..MaxMessages, reply_to \in 0..MaxMessages,
        own \in BOOLEAN}

\* The rows of topic t and direction d.
RowsOf(t, d) == {row \in db.messages : row.topic_id = t /\ row.in_group = d}

\* C16: for every reply, topic t and direction d, _get_reply_id returns: the
\* forwarded_id of a row with received_id = m, topic_id = t, in_group = d when
\* the replier is the author of the referenced message m; the received_id of
\* a row with forwarded_id = m, topic_id = t, in_group = not d otherwise; and
\* None when the message is not a reply or there is no such row.
C16_ReplyResolution ==
    \A message \in Replies, t \in ThreadIds, d \in BOOLEAN :
        LET m == message.reply_to
            res == GetReplyId(State, message, t, d)
            fwd == {row.forwarded_id : row \in {r \in RowsOf(t, d) : r.received_id = m}}
            back == {row.received_id : row \in {r \in RowsOf(t, ~d) : r.forwarded_id = m}}
        IN /\ res # {}
           /\ m = 0 => res = {0}
           /\ (m # 0 /\ message.own) => res = (IF fwd = {} THEN {0} ELSE fwd)
           /\ (m # 0 /\ ~message.own) => res = (IF back = {} THEN {0} ELSE back)

\* C16 witness: a thread with a row of each direction, where a user's reply
\* to the bot's copy of an admin's message resolves to that message, and a
\* reply to the user's own message resolves to its copy in the group.
C16_Witness ==
    \E t \in ThreadIds, m1 \in 1..MaxMessages, m2 \in 1..MaxMessages :
        /\ GetReplyId(State, Msg(MaxMessages, m1, FALSE), t, FALSE) # {0}
        /\ GetReplyId(State, Msg(MaxMessages, m2, TRUE), t, FALSE) # {0}
        /\ \E row \in db.messages : row.in_group /\ row.forwarded_id = m1

\* C17: when a user who is not blocked gives the right answer to the
\* outstanding challenge, the unit of work ends with the user in
\* verified_users (and the verified flag cached), no verification_attempts
\* row and no outstanding challenge; the message is denied, creates no
\* thread and is not forwarded; and the user's next message is allowed and
\* goes on to the spam screen and the router.
C17_RightAnswerVerifies ==
    \A u \in Clients, m \in Inbound :
        RightAnswer(State, u, m.text) =>
            LET r == Handled(State, tg, u, m)
            IN /\ r.ev = "correct_answer"
               /\ u \in r.S.db.verified_users
               /\ r.S.cache.verified[u] = "true"
               /\ ~r.S.db.verification_attempts[u].row
               /\ r.S.cache.captcha[u] = None
               /\ r.ret = "deny"
               /\ r.route = "none"
               /\ r.T = tg
               /\ r.S.db.topics = db.topics
               /\ \A m2 \in Inbound :
                     LET n == Handled(r.S, r.T, u, m2)
                     IN /\ n.ret = "allow"
                        /\ n.ev = "verified"
                        /\ n.route \in Resolved \cup {"spam"}
                        /\ ~m2.spam => n.route \in Resolved

\* C17 witness: a user who is not yet verified and has one wrong answer on
\* record has a challenge outstanding, and the right answer is among the
\* messages.
C17_Witness ==
    \E u \in Clients, m \in Inbound :
        /\ RightAnswer(State, u, m.text)
        /\ u \notin db.verified_users
        /\ cache.verified[u] = "false"
        /\ db.verification_attempts[u].attempt_count = 1

\* C18: when a message is a wrong answer to the outstanding challenge and
\* the resulting attempt count is below 3, the message is denied, a
\* challenge of the active kind is outstanding afterwards with the answer
\* generate_captcha drew, and the previous expected answer is no longer
\* accepted.
C18_WrongAnswerReplacesChallenge ==
    \A u \in Clients, m \in Inbound :
        (WrongAnswer(State, u, m.text) /\ GetAttemptCount(State, u) + 1 < MaxAttempts) =>
            LET r == Handled(State, tg, u, m)
            IN /\ r.ret = "deny"
               /\ r.count = GetAttemptCount(State, u) + 1
               /\ r.S.cache.captcha[u] # None
               /\ ~VerifyCaptcha(r.S, u, PyStr(Str(cache.captcha[u])))

\* The user is not blocked, has no outstanding challenge and is not
\* verified, with captcha enabled: the path that issues a first challenge.
Unverified(S, u) ==
    /\ S.cache.setting_captcha # "disable"
    /\ S.db.blocked_users[u] = "none"
    /\ S.cache.captcha[u] = None
    /\ ~IsUserVerified(S, u).verified

\* C19: for a user who is not blocked, not verified and has no outstanding
\* challenge, a message handled while the rate-limit marker is set is denied
\* on the branch that sends nothing, with the store, the outstanding
\* challenge, the marker and the platform unchanged; a message handled while
\* the marker is not set issues a challenge and sets the marker, so that the
\* message handled next does not issue another.
C19_OneChallengePerWindow ==
    \A u \in Clients, m \in Inbound :
        Unverified(State, u) =>
            LET r == Handled(State, tg, u, m)
            IN /\ cache.captcha_rate_limit[u] =>
                    /\ r.ev = "rate_limited"
                    /\ r.ret = "deny"
                    /\ r.route = "none"
                    /\ r.S.db = db
                    /\ r.S.cache.captcha = cache.captcha
                    /\ r.S.cache.captcha_rate_limit = cache.captcha_rate_limit
                    /\ r.T = tg
               /\ ~cache.captcha_rate_limit[u] =>
                    /\ r.ev = "challenge_issued"
                    /\ r.ret = "deny"
                    /\ r.S.cache.captcha_rate_limit[u]
                    /\ r.S.db = db
                    /\ \A m2 \in Inbound :
                          Handled(r.S, r.T, u, m2).ev # "challenge_issued"

\* C19 witness: the button challenge was issued (nothing is stored for it)
\* and the marker is still set when the user's next message arrives.
C19_Witness ==
    \E u \in Clients :
        /\ Unverified(State, u)
        /\ cache.setting_captcha = "button"
        /\ cache.captcha_rate_limit[u]
        /\ cache.verified[u] = "false"

\* C20: once the stored answer of a challenge has lapsed, verify_captcha
\* returns false for every answer; the next message of a user who is not
\* blocked is not taken as an answer (record_attempt is not called, the
\* attempts row is unchanged), and when the user is not verified and not
\* rate-limited it issues a fresh challenge of the active kind.
C20_LapsedChallenge ==
    \A u \in Clients :
        cache.captcha[u] = None =>
            /\ \A text \in Texts : ~VerifyCaptcha(State, u, text)
            /\ \A m \in Inbound :
                  (cache.setting_captcha # "disable" /\ db.blocked_users[u] = "none") =>
                      LET r == Handled(State, tg, u, m)
                      IN /\ r.count = 0
                         /\ r.ev \in {"verified", "rate_limited", "challenge_issued"}
                         /\ r.S.db.verification_attempts = db.verification_attempts
                         /\ (Unverified(State, u) /\ ~cache.captcha_rate_limit[u]) =>
                               /\ r.ev = "challenge_issued"
                               /\ cache.setting_captcha = "math" =>
                                      r.S.cache.captcha[u] = PyInt(m.g.a + m.g.b)
                               /\ cache.setting_captcha = "image" =>
                                      r.S.cache.captcha[u] = PyStr(m.g.code)

\* C20 witness: a user with one wrong answer on record whose challenge has
\* lapsed (after a wrong answer a challenge is outstanding until it is
\* answered or lapses), not verified and not rate-limited.
C20_Witness ==
    \E u \in Clients :
        /\ Unverified(State, u)
        /\ cache.setting_captcha \in {"math", "image"}
        /\ db.verification_attempts[u].attempt_count = 1
        /\ ~cache.captcha_rate_limit[u]

\* The user is blocked and the appeal-verification flag is set, with captcha
\* enabled: the message is taken as the answer to the appeal challenge.
AppealPending(S, u) ==
    /\ S.cache.setting_captcha # "disable"
    /\ S.db.blocked_users[u] # "none"
    /\ S.cache.appeal_verification[u]

\* The message of a blocked user is answered with the blocked notice that
\* carries the Appeal button, and is not taken as an answer: nothing in the
\* store, the cache or the platform changes.
C21_Affordance(S, T, u, m) ==
    LET n == Handled(S, T, u, m)
    IN /\ n.ev = "blocked_notice"
       /\ n.ret = "deny"
       /\ n.route = "none"
       /\ n.count = 0
       /\ n.S = S
       /\ n.T = T

\* C21: for a blocked user whose appeal-verification flag is set, a message
\* with the right answer to the appeal challenge ends with an AppealRequest
\* row for the user, the flag and the stored answer deleted, and the message
\* denied; a message with a wrong answer ends with the flag and the stored
\* answer deleted, appeal_requests unchanged, and the message denied; and
\* while the user is blocked and the flag is not set (cleared by either
\* answer, or lapsed), every message is answered with the Appeal button and
\* is not taken as an answer.
C21_AppealAnswerClearsFlag ==
    \A u \in Clients :
        /\ AppealPending(State, u) =>
              \A m \in Inbound :
                  LET r == Handled(State, tg, u, m)
                  IN /\ r.ret = "deny"
                     /\ r.route = "none"
                     /\ r.count = 0
                     /\ ~r.S.cache.appeal_verification[u]
                     /\ r.S.cache.captcha[u] = None
                     /\ r.S.db.verification_attempts = db.verification_attempts
                     /\ VerifyCaptcha(State, u, m.text) =>
                            /\ ~db.appeal_requests[u].row
                            /\ r.S.db.appeal_requests[u].row
                            /\ r.S.db.appeal_requests[u].status \in
                                   {"pending", "approved"}
                     /\ ~VerifyCaptcha(State, u, m.text) =>
                            /\ r.ev = "appeal_wrong"
                            /\ r.S.db = db
                     /\ r.S.db.blocked_users[u] # "none" =>
                            C21_Affordance(r.S, r.T, u, Plain)
        /\ (/\ cache.setting_captcha # "disable"
            /\ db.blocked_users[u] # "none"
            /\ ~cache.appeal_verification[u]) =>
              \A m \in Inbound : C21_Affordance(State, tg, u, m)

\* C21 witness: a blocked user without AppealRequest has the appeal challenge
\* outstanding with the flag set, and both a right and a wrong answer are
\* among the messages.
C21_Witness ==
    \E u \in Clients, m1 \in Inbound, m2 \in Inbound :
        /\ AppealPending(State, u)
        /\ ~db.appeal_requests[u].row
        /\ VerifyCaptcha(State, u, m1.text)
        /\ Handled(State, tg, u, m2).ev = "appeal_wrong"

\* The state after the user completes the appeal challenge that the appeal
\* request q issued: the click on the button of the button kind, the message
\* with the stored answer for the kinds math and image.
C22_Completed(q, u) ==
    IF q.S.cache.setting_captcha = "button"
    THEN HandleCallbackQuery(q.S, Data("verify_button", u), "private", 0, NoDraw).S
    ELSE Handled(q.S, tg, u,
                 Message(PyStr(Str(q.S.cache.captcha[u])), NoDraw, FALSE, TRUE,
                         TRUE)).S

\* C22: for each active kind (math, button, image), when a blocked user
\* without AppealRequest requests an appeal and then completes the challenge
\* issued for it before it lapses, an AppealRequest row exists for the user
\* afterwards; and while the user is still blocked, completing the challenge
\* adds nobody to verified_users and caches no verified flag.
C22_AppealChallengeSubmits ==
    \A u \in Clients, g \in Draws :
        (/\ cache.setting_captcha \in CaptchaTypes
         /\ db.blocked_users[u] # "none"
         /\ ~db.appeal_requests[u].row) =>
            LET q == HandleCallbackQuery(State, Data("appeal_request", u),
                                         "private", 0, g)
                done == C22_Completed(q, u)
            IN /\ q.ev = "appeal_challenge"
               /\ q.S.cache.appeal_verification[u]
               /\ done.db.appeal_requests[u].row
               /\ done.db.blocked_users[u] # "none" =>
                      /\ done.db.verified_users = db.verified_users
                      /\ done.cache.verified = cache.verified

\* C23: when a message that is a wrong answer to the outstanding challenge
\* is handled twice (the event is delivered again, whatever generate_captcha
\* draws the second time), the user's attempt count after both is the count
\* before plus 1, and the user is blocked after both only if blocked after
\* the first.
C23_RedeliveryCountsOnce ==
    \A u \in Clients, m \in Inbound, g2 \in Draws :
        WrongAnswer(State, u, m.text) =>
            LET first == Handled(State, tg, u, m)
                again == Handled(first.S, first.T, u, [m EXCEPT !.g = g2])
            IN /\ GetAttemptCount(first.S, u) = GetAttemptCount(State, u) + 1
               /\ GetAttemptCount(again.S, u) = GetAttemptCount(State, u) + 1
               /\ again.S.db.blocked_users[u] # "none" =>
                      first.S.db.blocked_users[u] # "none"

\* All effects of steps, applied in order.
RECURSIVE Ran(_, _, _)
Ran(U, u, steps) ==
    IF steps = <<>> THEN U
    ELSE Ran(Effected(U, u, Head(steps)), u, Tail(steps))

\* The effects of a writing branch, run to the end, leave the store and the
\* cache as the branch leaves them when taken as one unit of work, with
\* nothing uncommitted.
C24_StepsAreTheUnit ==
    \A u \in Clients, m \in Inbound :
        LET r == Handled(State, tg, u, m)
            U == Ran([db |-> db, tx |-> db, cache |-> cache], u, StepsOf(r.ev))
        IN (units.pc = 0 /\ r.ev \in Stepwise) =>
              /\ U.db = r.S.db
              /\ U.cache = r.S.cache
              /\ U.tx = U.db

\* The committed store holds what the write named by about puts there.
C24_Held(about, u) ==
    CASE about = "verified" -> u \in db.verified_users
      [] about = "blocked" ->
            db.blocked_users[u] = "auto_attempts" /\ u \notin db.verified_users
      [] about = "appeal" -> db.appeal_requests[u].row
      [] about = "approved" ->
            /\ db.appeal_requests[u].status = "approved"
            /\ db.blocked_users[u] = "none"
      [] OTHER -> FALSE

\* C24: in the three transitions that write the store (right answer,
\* auto-block, appeal submission), once the running unit of work has sent a
\* notification or updated the cache, the committed store holds the write
\* that the notification announces or the cache update goes with.
C24_EffectsFollowCommit ==
    \A i \in 1..Len(units.steps) :
        (i < units.pc /\ units.steps[i].op \in {"send", "cache"}) =>
            C24_Held(units.steps[i].about, units.u)

\* The state with the cache entries named in keys evicted: verified_{u},
\* chat_{u}_threadid, threadid_{t}_userid.
C25_Evicted(S, u, t, keys) ==
    [S EXCEPT !.cache.verified[u] = IF "verified" \in keys THEN "none" ELSE @,
              !.cache.chat_threadid[u] = IF "chat" \in keys THEN 0 ELSE @,
              !.cache.threadid_userid[t] = IF "thread" \in keys THEN 0 ELSE @]

\* C25: in every state, whichever of verified_{u}, chat_{u}_threadid and
\* threadid_{t}_userid are evicted, the next inbound message of u gets the
\* same admit decision and the same route, resolves to the same thread and
\* leaves the same store and platform, and the next message in thread t is
\* delivered to the same user and leaves the same store, as without the
\* eviction.
C25_EvictionUnobservable ==
    \A u \in Users, t \in ThreadIds,
       keys \in SUBSET {"verified", "chat", "thread"} :
        LET E == C25_Evicted(State, u, t, keys)
        IN /\ LookupThread(E, u).thread_id = LookupThread(State, u).thread_id
           /\ \A m \in Inbound :
                 LET a == Handled(State, tg, u, m)
                     b == Handled(E, tg, u, m)
                 IN /\ a.ret = b.ret
                    /\ a.ev = b.ev
                    /\ a.route = b.route
                    /\ a.S.db = b.S.db
                    /\ a.T = b.T
           /\ \A send_ok \in BOOLEAN :
                 LET a == HandleGroupMessage(State, t, send_ok)
                     b == HandleGroupMessage(E, t, send_ok)
                 IN /\ a.u = b.u
                    /\ a.route = b.route
                    /\ a.S.db = b.S.db

\* C26: handling a malformed callback payload (a text that is not JSON, the
\* JSON null, a JSON value that is not an object, an object without the key
\* action) raises no exception out of handle_callback_query and leaves the
\* store and the cache as they are.
C26_MalformedDropped ==
    \A data \in Malformed, chat \in Chats, g \in Draws :
        LET r == HandleCallbackData(State, data, chat, 0, g)
        IN /\ r.raised = "none"
           /\ r.S = State

\* Every statement of the migration has been applied: both tables exist,
\* blocked_users has block_reason, and settings has both keys.
C27_Migrated ==
    /\ db.tables = NewTables
    /\ db.block_reason
    /\ \A key \in DOMAIN SettingValues :
          \E i \in 1..Len(db.settings) : db.settings[i].key = key

\* C27: on a store to which the migration has been applied, running it
\* again, whichever of its statements succeed, leaves the tables, the
\* column and every row of settings as they are: no row is added and no
\* value is changed.
C27_SecondRunIsNoOp ==
    C27_Migrated => \A ok \in [1..5 -> BOOLEAN] : Upgrade(db, ok) = db

\* C28: verify_captcha returns False for every answer, the missing text
\* included, when no answer is stored for the user; when the sum n of a math
\* challenge is stored it returns True for the text that is the decimal
\* digits of n and False for every other text; when the code of an image
\* challenge is stored it returns True for that code and False for every
\* other text.  (It reads the cache and writes nothing.)
C28_VerifyCaptcha ==
    \A u \in Clients, answer \in Texts :
        LET captcha == cache.captcha[u]
            accepted == VerifyCaptcha(State, u, answer)
        IN /\ captcha = None => ~accepted
           /\ captcha.t = "int" =>
                  (accepted <=> answer = PyStr(IntToStr(captcha.i)))
           /\ captcha.t = "str" => (accepted <=> answer = PyStr(captcha.s))

\* C28 witness: the sum of a math challenge is stored, and the texts hold
\* its decimal digits, the same number with a leading zero and another
\* number.
C28_Witness ==
    \E u \in Clients :
        /\ cache.captcha[u] = PyInt(2)
        /\ VerifyCaptcha(State, u, PyStr(<<"2">>))
        /\ ~VerifyCaptcha(State, u, PyStr(<<"0", "2">>))
        /\ ~VerifyCaptcha(State, u, PyStr(<<"3">>))
        /\ {PyStr(<<"2">>), PyStr(<<"0", "2">>), PyStr(<<"3">>), None} \subseteq Texts

\* C29: every inbound message that is admitted and passes the spam screen,
\* and every message in a thread of the workspace, is either delivered (to
\* the user's thread, to the owner of the thread) or answered with a notice
\* posted in the workspace, whatever the platform answers.
C29_DeliveredOrNoticed ==
    /\ \A u \in Clients, create_ok \in BOOLEAN, send_ok \in BOOLEAN :
          LET r == HandleUserMessage(State, tg, u, None, NoDraw, FALSE,
                                     create_ok, send_ok)
          IN (r.ret = "allow" /\ r.route \in Resolved) =>
                (r.route = "forwarded" \/ WorkspaceNotice(r.route))
    /\ \A t \in tg.live, send_ok \in BOOLEAN :
          LET r == HandleGroupMessage(State, t, send_ok)
          IN r.route = "delivered" \/ WorkspaceNotice(r.route)

\* The rows that the unit of work r added to messages, and whether it left
\* the rows that were there.
C30_Added(r) == r.S.db.messages \ db.messages
C30_Kept(r) == db.messages \subseteq r.S.db.messages

\* C30: a unit of work of the router whose send succeeded (route forwarded
\* or delivered) ends with exactly one row more in messages, the one of its
\* received id, topic and direction; one whose send failed or did not happen
\* ends with no row more; and in both cases every row that was in messages
\* is still there, unchanged.
C30_RowIffForwarded ==
    /\ \A u \in Clients, create_ok \in BOOLEAN, send_ok \in BOOLEAN,
          auto_response \in BOOLEAN, response_ok \in BOOLEAN :
          LET message == Msg(tg.message_id[u], 0, FALSE)
              f == RelayUserMessage(State, NewMessage(tg, u).T, u, message,
                                    FALSE, create_ok, send_ok)
              r == IF auto_response THEN AutoResponse(f, State, response_ok)
                   ELSE f
          IN /\ C30_Kept(r)
             /\ r.route = "forwarded" =>
                    \E row \in r.S.db.messages :
                        /\ C30_Added(r) = {row}
                        /\ row.received_id = message.message_id
                        /\ row.topic_id = r.S.cache.chat_threadid[u]
                        /\ ~row.in_group
             /\ r.route # "forwarded" => C30_Added(r) = {}
    /\ \A t \in tg.live, send_ok \in BOOLEAN :
          LET message == Msg(tg.message_id[GroupId], 0, FALSE)
              r == RelayGroupMessage(State, NewMessage(tg, GroupId).T, message,
                                     t, send_ok)
          IN /\ C30_Kept(r)
             /\ r.route = "delivered" =>
                    \E row \in r.S.db.messages :
                        /\ C30_Added(r) = {row}
                        /\ row.received_id = message.message_id
                        /\ row.topic_id = t
                        /\ row.in_group
             /\ r.route # "delivered" => C30_Added(r) = {}

\* Whether thread t has an owner in the cache or in the store.
Owned(S, t) ==
    \/ S.cache.threadid_userid[t] # 0
    \/ \E row \in S.db.topics : row.thread_id = t

\* C31: a message posted in a thread of the workspace that has no owner in
\* cache or store is delivered to no user (no chat of a user gets a message)
\* and leaves the store as it was, without a row in messages; the notice is
\* posted in that thread, close_forum_topic is called, the thread is closed
\* exactly when the call succeeds, and the handler does not raise when it
\* fails.
C31_OrphanThread ==
    \A t \in tg.live, send_ok \in BOOLEAN, close_ok \in BOOLEAN :
        LET T == NewMessage(tg, GroupId).T
            r == RelayOutbound(State, T, Msg(tg.message_id[GroupId], 0, FALSE),
                               t, send_ok, close_ok)
        IN ~Owned(State, t) =>
              /\ r.route = "orphan_thread"
              /\ r.u = 0
              /\ \A u \in Users : r.T.message_id[u] = tg.message_id[u]
              /\ r.S.db = db
              /\ r.notice = t
              /\ r.T.message_id[GroupId] = T.message_id[GroupId] + 1
              /\ r.close \in {"closed", "refused"}
              /\ r.T.closed = (IF close_ok THEN tg.closed \cup {t} ELSE tg.closed)
              /\ ~r.raised

\* C31 witness: a live thread without an owner that is closed: a message
\* was posted in it, the notice followed it in the group, and the closure
\* succeeded.
C31_Witness ==
    \E t \in tg.live :
        /\ ~Owned(State, t)
        /\ t \in tg.closed
        /\ tg.message_id[GroupId] >= 3

\* The message that row correlates with message m of the chat the reply is
\* written in: written by a user (in_group FALSE), m is the user's own
\* message or the copy of a staff message; written in the thread (in_group
\* TRUE), m is a staff message or the copy of the user's message.
C32_Counterparts(t, in_group, m) ==
    {row.forwarded_id : row \in {x \in RowsOf(t, in_group) : x.received_id = m}}
        \cup {row.received_id : row \in {x \in RowsOf(t, ~in_group) : x.forwarded_id = m}}

\* C32: every reply to a message that has a row in messages for the thread
\* is sent to the other side with reply_to_message_id set to the counterpart
\* of that message: a user's reply to a message of their own or to the copy
\* of a staff message, and a staff member's reply to the copy of a user's
\* message or to a message that they (own) or another staff member (not own)
\* wrote in the thread.
C32_RepliesReachCounterpart ==
    /\ \A u \in Clients, row \in db.messages :
          LET m == IF row.in_group THEN row.forwarded_id ELSE row.received_id
              r == RelayUserMessage(State, NewMessage(tg, u).T, u,
                                    Msg(tg.message_id[u], m, ~row.in_group),
                                    FALSE, TRUE, TRUE)
          IN (r.route = "forwarded" /\ r.S.cache.chat_threadid[u] = row.topic_id) =>
                r.reply_id \subseteq C32_Counterparts(row.topic_id, FALSE, m)
    /\ \A row \in db.messages, own \in BOOLEAN :
          LET m == IF row.in_group THEN row.received_id ELSE row.forwarded_id
              r == RelayOutbound(State, NewMessage(tg, GroupId).T,
                                 Msg(tg.message_id[GroupId], m, own),
                                 row.topic_id, TRUE, TRUE)
          IN (r.route = "delivered" /\ (own => row.in_group)) =>
                r.reply_id \subseteq C32_Counterparts(row.topic_id, TRUE, m)

\* The cache after the settings entries named in keys were evicted:
\* cache.get then returns None for them.
C33_Evicted(S, keys) ==
    [S EXCEPT !.cache.setting_captcha =
                  IF "setting_captcha" \in keys THEN "none" ELSE @,
              !.cache.setting_appeal_mode =
                  IF "setting_appeal_mode" \in keys THEN "none" ELSE @]

\* What a unit of work answered and left, for the user it was called for:
\* the admit decision, the branch taken (which names how an appeal was
\* resolved), the challenge stored and the store.
C33_Observed(r, u) ==
    [ret |-> r.ret, ev |-> r.ev, captcha |-> r.S.cache.captcha[u], db |-> r.S.db]

\* C33: with either or both of setting_captcha and setting_appeal_mode
\* evicted from the cache, every inbound message gets the admit decision,
\* the challenge and the appeal resolution it gets with the entries in
\* place, and every appeal request issues the same challenge.
C33_SettingsEvictionUnobservable ==
    \A keys \in (SUBSET {"setting_captcha", "setting_appeal_mode"}) \ {{}} :
        LET E == C33_Evicted(State, keys)
        IN /\ \A u \in Clients, m \in Inbound :
                 C33_Observed(Handled(State, tg, u, m), u)
                     = C33_Observed(Handled(E, tg, u, m), u)
           /\ \A u \in Clients, g \in Draws :
                 LET a == HandleCallbackQuery(State, Data("appeal_request", u),
                                              "private", 0, g)
                     b == HandleCallbackQuery(E, Data("appeal_request", u),
                                              "private", 0, g)
                 IN /\ a.ev = b.ev
                    /\ a.S.cache.captcha[u] = b.S.cache.captcha[u]

\* The wrong answers of user u whose record_attempt has returned or raised.
C34_Processed(u) ==
    {k \in 1..MaxAnswers : units[k].u = u /\ units[k].pc \in {"recorded", "done"}}

\* record_attempt in two steps is record_attempt.
C34_StepsAreRecordAttempt ==
    \A u \in Clients :
        LET w == WriteAttemptCount(State, u, SelectAttemptCount(State, u))
        IN /\ ~w.raised
           /\ w.S = RecordAttempt(State, u).S
           /\ w.new_count = RecordAttempt(State, u).new_count

\* C34: whatever the interleaving of the units of work that handle the
\* wrong answers of a user, the stored attempt_count is the number of wrong
\* answers whose record_attempt has ended, none of them raised, and once
\* the unit that recorded the third has ended the user has the blocked_users
\* row of reason auto_attempts.
C34_NoLostAttempt ==
    \A u \in Clients :
        /\ GetAttemptCount(State, u) = Cardinality(C34_Processed(u))
        /\ \A k \in C34_Processed(u) : ~units[k].raised
        /\ (Cardinality({k \in C34_Processed(u) : units[k].pc = "done"}) >= MaxAttempts)
               => db.blocked_users[u] = "auto_attempts"

\* C35: an approve_appeal or reject_appeal payload, for any user id and
\* pressed by anyone, that arrives from a chat other than the workspace
\* group leaves the store and the cache as they are (appeal_requests,
\* blocked_users and verification_attempts in particular).
C35_ResolutionOnlyFromGroup ==
    \A action \in {"approve_appeal", "reject_appeal"}, user_id \in Clients \cup {0},
       admin \in Admins \cup Clients :
        LET r == HandleCallbackQuery(State, Data(action, user_id), "private",
                                     admin, NoDraw)
        IN /\ r.S.db.appeal_requests = db.appeal_requests
           /\ r.S.db.blocked_users = db.blocked_users
           /\ r.S.db.verification_attempts = db.verification_attempts
           /\ r.S = State

\* C35 witness: a blocked user with a pending appeal and an attempts row:
\* from the group, approval changes the three tables and rejection changes
\* appeal_requests.
C35_Witness ==
    \E u \in Clients, admin \in Admins :
        LET a == HandleCallbackQuery(State, Data("approve_appeal", u), "group",
                                     admin, NoDraw)
            b == HandleCallbackQuery(State, Data("reject_appeal", u), "group",
                                     admin, NoDraw)
        IN /\ db.appeal_requests[u].status = "pending"
           /\ a.S.db.appeal_requests # db.appeal_requests
           /\ a.S.db.blocked_users # db.blocked_users
           /\ a.S.db.verification_attempts # db.verification_attempts
           /\ b.S.db.appeal_requests # db.appeal_requests

\* C36: in every reachable state a user whose blocked_users row has the
\* reason auto_attempts has no verified_users row and no verified flag in
\* the cache that is true.
C36_BlockedNotVerified ==
    \A u \in Users :
        db.blocked_users[u] = "auto_attempts" =>
            /\ u \notin db.verified_users
            /\ cache.verified[u] # "true"

\* C37: in every reachable state the stored attempt_count of each user is
\* at most 3, and a verification_attempts row with blocked_by_attempts set
\* belongs to a user who has a blocked_users row.
C37_AttemptsBounded ==
    \A u \in Users :
        /\ GetAttemptCount(State, u) <= MaxAttempts
        /\ (db.verification_attempts[u].row
               /\ db.verification_attempts[u].blocked_by_attempts)
              => db.blocked_users[u] # "none"

\* Whether the unit of work r left the attempts row, the verified row and
\* the block of user u as they were.
C38_Kept(r, u) ==
    /\ r.S.db.verification_attempts[u] = db.verification_attempts[u]
    /\ (u \in r.S.db.verified_users) = (u \in db.verified_users)
    /\ r.S.db.blocked_users[u] = db.blocked_users[u]

C39_FlagSet(S1, u) ==
    S1.cache.appeal_verification[u] /\ ~cache.appeal_verification[u]

\* What C39 says of the callback that ends in r, for user v.
C39_Callback(r, v, action, user_id) ==
    /\ C39_FlagSet(r.S, v) =>
          /\ action = "appeal_request"
          /\ user_id = v
          /\ db.blocked_users[v] # "none"
          /\ ~db.appeal_requests[v].row
    /\ (action = "appeal_request" /\ user_id # 0
           /\ db.blocked_users[user_id] = "none") =>
          /\ r.S = State
          /\ r.ev # "appeal_challenge"

\* C39: no inbound message and no message in the workspace sets the flag of
\* any user; a callback sets the flag of user u only when it is an appeal
\* request for u, u has a blocked_users row and no appeal_requests row; and
\* an appeal request for a user who is not blocked leaves store and cache as
\* they are (no flag, no challenge, no row).
C39_FlagOnlyByAppealRequest ==
    /\ \A v \in Users, u \in Clients, m \in Inbound :
          ~C39_FlagSet(Handled(State, tg, u, m).S, v)
    /\ \A v \in Users, t \in ThreadIds, send_ok \in BOOLEAN :
          ~C39_FlagSet(HandleGroupMessage(State, t, send_ok).S, v)
    /\ \A v \in Users, action \in UserActions, user_id \in Users \cup {0},
          chat \in Chats, g \in Draws :
          C39_Callback(HandleCallbackQuery(State, Data(action, user_id), chat,
                                           user_id, g),
                       v, action, user_id)
    /\ \A v \in Users, action \in AdminActions, user_id \in Users \cup {0},
          chat \in Chats, admin \in Admins \cup Users :
          C39_Callback(HandleCallbackQuery(State, Data(action, user_id), chat,
                                           admin, NoDraw),
                       v, action, user_id)

\* C39 witness: a blocked user without an appeal row whose flag is set and
\* whose appeal challenge is outstanding, in a state where a further appeal
\* request of an admitted sender would be answered "not blocked".
C39_Witness ==
    \E u \in Clients, v \in Users :
        /\ cache.appeal_verification[u]
        /\ db.blocked_users[u] # "none"
        /\ ~db.appeal_requests[u].row
        /\ cache.captcha[u] # None
        /\ HandleCallbackQuery(State, Data("appeal_request", v), "private", 0,
                               NoDraw).ev = "not_blocked"

====
